---- MODULE Spec2Model ----
(***************************************************************************)
(* A model of ar065/c-midiplayer: the event queue of src/main.c            *)
(* (queue_push / queue_pop under the queue mutex) and the playback engine  *)
(* of src/midiplayer.c (track decoder, play_midi pump loop).               *)
(*                                                                         *)
(* The specifications share the variables:                                 *)
(*   SpecQueue   producers and consumers calling queue_push / queue_pop    *)
(*   SpecRender  note_on / note_off against update_texture                 *)
(*   SpecPlay    play_midi over loaded tracks                              *)
(*   SpecPlayAny play_midi over tracks of any byte content                 *)
(*   SpecPace    play_midi under a clock that may read late                *)
(*   SpecSampled play_midi with the thread of log_notes_per_second         *)
(*   SpecDecode  one call of update_tick / decode_variable_length          *)
(*   SpecMessage one call of update_command and update_message             *)
(*   SpecLoad    load_midi_file on a file                                  *)
(* The part a specification does not exercise stays parked.                *)
(***************************************************************************)
EXTENDS Integers, Sequences, FiniteSets, TLC

(***************************************************************************)
(* Bounds of the model.                                                    *)
(***************************************************************************)
\* src/main.c:18 sets RING_BUFFER_SIZE to 13414000; the model scales it down.
RING_BUFFER_SIZE == 3
\* calls of queue_push the producers make in one run
MaxPushes == 4
\* producer threads (src/main.c runs one: midi_thread)
NumProducers == 1
\* consumer threads (src/main.c runs one: the render loop)
NumConsumers == 2
\* tracks of a generated file
NumTracks == 2
\* events, beside End-of-Track, of all the tracks of a generated file together
MaxEvents == 3
\* events of all the tracks of a generated file with truncated chunks
MaxEventsAny == 1
\* bytes the cursor of a track may stand past its buffer before the model stops
\* following it
MaxOverrun == 2
\* passes of the loop of log_notes_per_second that are followed
MaxReports == 2

(***************************************************************************)
(* Event queue, src/main.c                                                 *)
(***************************************************************************)
VARIABLES
    eventQueue,   \* EventQueue: events, head, tail, mutex (0 free, else the holder)
    nprod,        \* producer threads of this run
    ncons,        \* consumer threads of this run
    qpc,          \* per thread: "idle", "push_body", "push_unlock", "pop_body", "pop_unlock"
    arg,          \* per thread: the MidiEvent passed to queue_push
    out,          \* per thread: the caller's MidiEvent that queue_pop writes through
    success,      \* per thread: the local `success`
    ret,          \* per thread: what its last finished call returned ("none" before)
    pushCalls,    \* calls of queue_push started so far
    accepted,     \* history: events stored by successful pushes, in order
    popped,       \* history: events handed out by successful pops, in order
    returned      \* history per consumer: events its successful pops returned

qvars == <<eventQueue, nprod, ncons, qpc, arg, out, success, ret, pushCalls,
           accepted, popped, returned>>

\* the consumer's note_on / note_off and its render loop, src/main.c
VARIABLES
    rpc,                 \* per thread, its place in note_on / note_off or in
                         \* update_texture: "off" (the thread calls the queue
                         \* directly), "idle", "write", "push", "pop", "access",
                         \* "active", "flag"
    activeNotes,         \* the (channel, note) pairs whose isActive is true
    textureNeedsUpdate

rvars == <<rpc, activeNotes, textureNeedsUpdate>>

\* playback engine, src/midiplayer.c
VARIABLES
    mem,               \* heap: the bytes of each track's buffer, by track index
    tracks,            \* TrackData of each track, indexed from 0
    track_count,
    time_div,
    tick,              \* play_midi: the global tick
    multiplier,        \* play_midi: a double, kept as the exact fraction num/den
    bpm,
    delta_tick,
    note_on_count,
    is_playing,
    has_active_tracks,
    active_tracks,     \* play_midi: active_tracks[0..active_track_count-1]
    i,                 \* play_midi: the index of the for loop over the tracks
    ppc,               \* play_midi: "off", "entry", "while", "for", "finish", "returned", "fault"
    notes              \* history: the callback invocations, in order

pvars == <<mem, tracks, track_count, time_div, tick, multiplier, bpm, delta_tick,
           note_on_count, is_playing, has_active_tracks, active_tracks, i, ppc, notes>>

\* play_midi: the pacing of the pump loop, lines 286-299, in units of 100 ns
VARIABLES
    delta,             \* int64_t delta: the accumulated drift
    old,               \* uint64_t old: the ideal delay of the current step
    pace_temp,         \* uint64_t temp
    paced,             \* history: what the last pass through lines 286-299 did
    clock              \* how late beyond the requested sleep the clock may read

tvars == <<delta, old, pace_temp, paced, clock>>

\* the thread of log_notes_per_second, src/midiplayer.c
VARIABLES
    spc,                 \* "none" (no thread), "test" (line 148), "sleep"
                         \* (line 150), "print" (line 151), "reset" (line 152),
                         \* "done" (returned)
    reported             \* history: the values printed at line 151

svars == <<spc, reported>>

\* one call of decode_variable_length, or of update_command and update_message
VARIABLES
    dpc,               \* "off", "call" (about to be made), "done"; "event", "decoded"
    entry,             \* the track as it is when the call is made
    dtrack,            \* the track as the call leaves it
    dresult,           \* what the call returned
    reads              \* history: the indices of data[] the call read, in order

dvars == <<dpc, entry, dtrack, dresult, reads>>

\* load_midi_file; it writes *time_div, *track_count and builds tracks and mem
VARIABLES
    file,              \* the bytes of the file
    fpos,              \* the read position of the FILE
    lpc,               \* "off", "header", "chunks", "done"
    header,            \* char header[4]
    num_tracks,
    valid_tracks,
    li,                \* the index i of the loop over the chunks
    load_ret           \* what load_midi_file returned: "none" yet, "NULL", "tracks"

lvars == <<file, fpos, lpc, header, num_tracks, valid_tracks, li, load_ret>>

\* the variables the event queue does not touch, and those play_midi does not
nonqueue == <<pvars, tvars, svars, dvars, lvars>>
nonplay == <<qvars, rvars, dvars, lvars>>
nondecode == <<qvars, rvars, pvars, tvars, svars, lvars>>

Producers == 1..NumProducers
Consumers == (NumProducers + 1)..(NumProducers + NumConsumers)
Threads == Producers \cup Consumers

ActiveProducers == 1..nprod
ActiveConsumers == (NumProducers + 1)..(NumProducers + ncons)

\* MidiEvent, zero-initialised as the static eventQueue is
ZeroEvent == [note |-> 0, velocity |-> 0, channel |-> 0, isNoteOn |-> FALSE, timestamp |-> 0]
\* the local `MidiEvent event;` of update_texture before any pop wrote it
UninitEvent == [note |-> 0, velocity |-> 0, channel |-> 0, isNoteOn |-> FALSE, timestamp |-> -1]
\* the k-th event offered to the queue; the timestamp identifies it
MkEvent(k) == [note |-> 60 + (k % 2), velocity |-> 64, channel |-> k % 2,
               isNoteOn |-> (k % 2 = 1), timestamp |-> k]

init_event_queue == [events |-> [s \in 0..(RING_BUFFER_SIZE - 1) |-> ZeroEvent],
                     head |-> 0, tail |-> 0, mutex |-> 0]

\* queue_push storing the event in the slot after head
queue_push_store_at_next(q, event) ==
    LET next == (q.head + 1) % RING_BUFFER_SIZE
    IN  IF next # q.tail
        THEN [queue |-> [q EXCEPT !.events[next] = event, !.head = next],
              success |-> TRUE]
        ELSE [queue |-> q, success |-> FALSE]

\* queue_push storing the event before it tests for a full queue
queue_push_store_first(q, event) ==
    LET next == (q.head + 1) % RING_BUFFER_SIZE
        stored == [q EXCEPT !.events[q.head] = event]
    IN  IF next # q.tail
        THEN [queue |-> [stored EXCEPT !.head = next], success |-> TRUE]
        ELSE [queue |-> stored, success |-> FALSE]

\* queue_push without the test for a full queue
queue_push_no_full_test(q, event) ==
    LET next == (q.head + 1) % RING_BUFFER_SIZE
    IN  [queue |-> [q EXCEPT !.events[q.head] = event, !.head = next],
         success |-> TRUE]

\* queue_push between pthread_mutex_lock and pthread_mutex_unlock
queue_push(q, event) ==
    LET next == (q.head + 1) % RING_BUFFER_SIZE
    IN  IF next # q.tail
        THEN [queue |-> [q EXCEPT !.events[q.head] = event, !.head = next],
              success |-> TRUE]
        ELSE [queue |-> q, success |-> FALSE]

\* queue_pop copying the slot at tail out before it tests for an empty queue
\* queue_pop that hands the event out and leaves tail where it is
queue_pop_keep_tail(q, event) ==
    IF q.tail # q.head
    THEN [queue |-> q, event |-> q.events[q.tail], success |-> TRUE]
    ELSE [queue |-> q, event |-> event, success |-> FALSE]

queue_pop_copy_first(q, event) ==
    IF q.tail # q.head
    THEN [queue |-> [q EXCEPT !.tail = (q.tail + 1) % RING_BUFFER_SIZE],
          event |-> q.events[q.tail], success |-> TRUE]
    ELSE [queue |-> q, event |-> q.events[q.tail], success |-> FALSE]

\* queue_pop between pthread_mutex_lock and pthread_mutex_unlock;
\* `event` is the caller's object before the call
queue_pop(q, event) ==
    IF q.tail # q.head
    THEN [queue |-> [q EXCEPT !.tail = (q.tail + 1) % RING_BUFFER_SIZE],
          event |-> q.events[q.tail], success |-> TRUE]
    ELSE [queue |-> q, event |-> event, success |-> FALSE]

pthread_mutex_lock(q, t) == [q EXCEPT !.mutex = t]
\* pthread_mutex_unlock leaving the mutex with its holder
pthread_mutex_unlock_keeps(q) == q

pthread_mutex_unlock(q) == [q EXCEPT !.mutex = 0]

InitQueue ==
    /\ eventQueue = init_event_queue
    /\ nprod \in 1..NumProducers
    /\ ncons \in 1..NumConsumers
    /\ qpc = [t \in Threads |-> "idle"]
    /\ arg = [t \in Threads |-> ZeroEvent]
    /\ out = [t \in Threads |-> UninitEvent]
    /\ success = [t \in Threads |-> FALSE]
    /\ ret = [t \in Threads |-> "none"]
    /\ pushCalls = 0
    /\ accepted = <<>>
    /\ popped = <<>>
    /\ returned = [t \in Threads |-> <<>>]
    /\ rpc = [t \in Threads |-> "off"]
    /\ activeNotes = {}
    /\ textureNeedsUpdate = FALSE

\* queue_push, lines 92-93: success = false; the lock is taken
PushLock(t) ==
    /\ t \in ActiveProducers
    /\ qpc[t] = "idle"
    /\ rpc[t] \in {"off", "push"}
    /\ pushCalls < MaxPushes
    /\ eventQueue.mutex = 0
    /\ eventQueue' = pthread_mutex_lock(eventQueue, t)
    /\ pushCalls' = pushCalls + 1
    /\ arg' = [arg EXCEPT ![t] = MkEvent(pushCalls + 1)]
    /\ success' = [success EXCEPT ![t] = FALSE]
    /\ qpc' = [qpc EXCEPT ![t] = "push_body"]
    /\ UNCHANGED <<nprod, ncons, out, ret, accepted, popped, returned>>
    /\ UNCHANGED rvars
    /\ UNCHANGED nonqueue

\* queue_push, lines 94-99
PushBody(t) ==
    /\ qpc[t] = "push_body"
    /\ LET r == queue_push(eventQueue, arg[t])
       IN  /\ eventQueue' = r.queue
           /\ success' = [success EXCEPT ![t] = r.success]
           /\ accepted' = IF r.success THEN Append(accepted, arg[t]) ELSE accepted
    /\ qpc' = [qpc EXCEPT ![t] = "push_unlock"]
    /\ UNCHANGED <<nprod, ncons, arg, out, ret, pushCalls, popped, returned>>
    /\ UNCHANGED rvars
    /\ UNCHANGED nonqueue

\* queue_push, lines 100-101; in note_on / note_off the call returns to line
\* 167 / 185
PushUnlock(t) ==
    /\ qpc[t] = "push_unlock"
    /\ eventQueue' = pthread_mutex_unlock(eventQueue)
    /\ ret' = [ret EXCEPT ![t] = IF success[t] THEN "true" ELSE "false"]
    /\ qpc' = [qpc EXCEPT ![t] = "idle"]
    /\ rpc' = [rpc EXCEPT ![t] = IF @ = "push" THEN "flag" ELSE @]
    /\ UNCHANGED <<nprod, ncons, arg, out, success, pushCalls, accepted, popped, returned>>
    /\ UNCHANGED <<activeNotes, textureNeedsUpdate>>
    /\ UNCHANGED nonqueue

\* queue_pop, lines 105-106
PopLock(t) ==
    /\ t \in ActiveConsumers
    /\ qpc[t] = "idle"
    /\ rpc[t] \in {"off", "pop"}
    /\ eventQueue.mutex = 0
    /\ eventQueue' = pthread_mutex_lock(eventQueue, t)
    /\ success' = [success EXCEPT ![t] = FALSE]
    /\ qpc' = [qpc EXCEPT ![t] = "pop_body"]
    /\ UNCHANGED <<nprod, ncons, arg, out, ret, pushCalls, accepted, popped, returned>>
    /\ UNCHANGED rvars
    /\ UNCHANGED nonqueue

\* queue_pop, lines 107-111
PopBody(t) ==
    /\ qpc[t] = "pop_body"
    /\ LET r == queue_pop(eventQueue, out[t])
       IN  /\ eventQueue' = r.queue
           /\ out' = [out EXCEPT ![t] = r.event]
           /\ success' = [success EXCEPT ![t] = r.success]
           /\ popped' = IF r.success THEN Append(popped, r.event) ELSE popped
           /\ returned' = IF r.success
                          THEN [returned EXCEPT ![t] = Append(@, r.event)]
                          ELSE returned
    /\ qpc' = [qpc EXCEPT ![t] = "pop_unlock"]
    /\ UNCHANGED <<nprod, ncons, arg, ret, pushCalls, accepted>>
    /\ UNCHANGED rvars
    /\ UNCHANGED nonqueue

\* queue_pop, lines 112-113; in update_texture the call returns to the test
\* of line 283
PopUnlock(t) ==
    /\ qpc[t] = "pop_unlock"
    /\ eventQueue' = pthread_mutex_unlock(eventQueue)
    /\ ret' = [ret EXCEPT ![t] = IF success[t] THEN "true" ELSE "false"]
    /\ qpc' = [qpc EXCEPT ![t] = "idle"]
    /\ rpc' = [rpc EXCEPT ![t] = IF @ = "pop"
                                 THEN (IF success[t] THEN "access" ELSE "active")
                                 ELSE @]
    /\ UNCHANGED <<nprod, ncons, arg, out, success, pushCalls, accepted, popped, returned>>
    /\ UNCHANGED <<activeNotes, textureNeedsUpdate>>
    /\ UNCHANGED nonqueue

NextQueue ==
    \E t \in Threads :
        \/ PushLock(t)
        \/ PushBody(t)
        \/ PushUnlock(t)
        \/ PopLock(t)
        \/ PopBody(t)
        \/ PopUnlock(t)

\* the scheduler thread and the render loop of main.c: the producer calls
\* note_on / note_off, the consumer update_texture
InitRender ==
    /\ eventQueue = init_event_queue
    /\ nprod = 1
    /\ ncons = 1
    /\ qpc = [t \in Threads |-> "idle"]
    /\ arg = [t \in Threads |-> ZeroEvent]
    /\ out = [t \in Threads |-> UninitEvent]
    /\ success = [t \in Threads |-> FALSE]
    /\ ret = [t \in Threads |-> "none"]
    /\ pushCalls = 0
    /\ accepted = <<>>
    /\ popped = <<>>
    /\ returned = [t \in Threads |-> <<>>]
    /\ rpc = [t \in Threads |-> "idle"]
    /\ activeNotes = {}
    /\ textureNeedsUpdate = FALSE

\* note_on / note_off is called, lines 150-157 / 170-177: the event is built
NoteEnter(t) ==
    /\ t \in ActiveProducers
    /\ rpc[t] = "idle"
    /\ pushCalls < MaxPushes
    /\ rpc' = [rpc EXCEPT ![t] = "write"]
    /\ UNCHANGED <<activeNotes, textureNeedsUpdate>>
    /\ UNCHANGED qvars
    /\ UNCHANGED nonqueue

\* note_on lines 159-164, note_off lines 179-182: activeNotes[channel][note]
\* is written for the event of this call
NoteWrite(t) ==
    /\ rpc[t] = "write"
    /\ t \in ActiveProducers
    /\ LET event == MkEvent(pushCalls + 1)
       IN  activeNotes' = IF event.isNoteOn
                          THEN activeNotes \cup {<<event.channel, event.note>>}
                          ELSE activeNotes \ {<<event.channel, event.note>>}
    /\ rpc' = [rpc EXCEPT ![t] = "push"]
    /\ UNCHANGED textureNeedsUpdate
    /\ UNCHANGED qvars
    /\ UNCHANGED nonqueue

\* note_on line 167, note_off line 185
NoteFlag(t) ==
    /\ rpc[t] = "flag"
    /\ t \in ActiveProducers
    /\ textureNeedsUpdate' = TRUE
    /\ rpc' = [rpc EXCEPT ![t] = "idle"]
    /\ UNCHANGED activeNotes
    /\ UNCHANGED qvars
    /\ UNCHANGED nonqueue

\* update_texture lines 275-283: up to the first call of queue_pop
TextureEnter(t) ==
    /\ t \in ActiveConsumers
    /\ rpc[t] = "idle"
    /\ rpc' = [rpc EXCEPT ![t] = "pop"]
    /\ UNCHANGED <<activeNotes, textureNeedsUpdate>>
    /\ UNCHANGED qvars
    /\ UNCHANGED nonqueue

\* update_texture lines 284-310: for a Note-On startX and needsDrawing of
\* activeNotes[event.channel][event.note] are written (lines 287-288), for a
\* Note-Off startX is read (line 290); isActive is not touched
TextureAccess(t) ==
    /\ rpc[t] = "access"
    /\ t \in ActiveConsumers
    /\ rpc' = [rpc EXCEPT ![t] = "pop"]
    /\ UNCHANGED <<activeNotes, textureNeedsUpdate>>
    /\ UNCHANGED qvars
    /\ UNCHANGED nonqueue

\* update_texture line 316: update_active_notes reads isActive and needsDrawing
\* of every entry and writes startX and needsDrawing, lines 235-243
TextureActive(t) ==
    /\ rpc[t] = "active"
    /\ t \in ActiveConsumers
    /\ rpc' = [rpc EXCEPT ![t] = "flag"]
    /\ UNCHANGED <<activeNotes, textureNeedsUpdate>>
    /\ UNCHANGED qvars
    /\ UNCHANGED nonqueue

\* update_texture line 319
TextureFlag(t) ==
    /\ rpc[t] = "flag"
    /\ t \in ActiveConsumers
    /\ textureNeedsUpdate' = FALSE
    /\ rpc' = [rpc EXCEPT ![t] = "idle"]
    /\ UNCHANGED activeNotes
    /\ UNCHANGED qvars
    /\ UNCHANGED nonqueue

NextRender ==
    \E t \in Threads :
        \/ NoteEnter(t)
        \/ NoteWrite(t)
        \/ PushLock(t)
        \/ PushBody(t)
        \/ PushUnlock(t)
        \/ NoteFlag(t)
        \/ TextureEnter(t)
        \/ PopLock(t)
        \/ PopBody(t)
        \/ PopUnlock(t)
        \/ TextureAccess(t)
        \/ TextureActive(t)
        \/ TextureFlag(t)

(***************************************************************************)
(* Playback engine, src/midiplayer.c                                       *)
(***************************************************************************)
NULL == 0
\* delta_tick = UINT64_MAX: all ones, written -1 and compared as unsigned
UINT64_MAX == -1

\* a | b and a & b on non-negative integers
RECURSIVE BitOr(_, _)
BitOr(a, b) ==
    IF a = 0 THEN b
    ELSE IF b = 0 THEN a
    ELSE (IF a % 2 = 1 \/ b % 2 = 1 THEN 1 ELSE 0) + 2 * BitOr(a \div 2, b \div 2)

RECURSIVE BitAnd(_, _)
BitAnd(a, b) ==
    IF a = 0 \/ b = 0 THEN 0
    ELSE (IF a % 2 = 1 /\ b % 2 = 1 THEN 1 ELSE 0) + 2 * BitAnd(a \div 2, b \div 2)

\* a < b on uint64_t values
\* (a negative integer stands for the value 2^64 larger)
ULess(a, b) == IF (a >= 0) = (b >= 0) THEN a < b ELSE a >= 0

\* a <= b on uint64_t values; an int operand is converted to uint64_t, which
\* maps a negative int to the value 2^64 larger (lines 218, 220)
ULessEq(a, b) == ~ULess(b, a)

\* a + b on 32-bit ints, wrapping around on overflow (line 73)
Add32(a, b) ==
    IF a >= 0 /\ b >= 0 /\ a > 2147483647 - b
    THEN ((a - 2147483647) - 1) + ((b - 2147483647) - 1)
    ELSE IF a < 0 /\ b < 0 /\ a < ((0 - 2147483647) - 1) - b
    THEN ((a + 2147483647) + 1) + ((b + 2147483647) + 1)
    ELSE a + b

\* what a read outside the allocated buffer may return
OOBBytes == {0, 255}
\* what a read of a byte of the scratch buffer that was never written may return
IndeterminateBytes == {0, 255}
\* the bytes of long_msg the model keeps: long_msg[0..2], the ones line 127 reads
LongMsgView == 3

\* the values data[k] can have, k counted from 0
ReadByte(t, k) ==
    IF k >= 0 /\ k < Len(mem[t.data]) THEN {mem[t.data][k + 1]} ELSE OOBBytes

init_track_data ==
    [data |-> NULL, long_msg |-> <<>>, tick |-> 0, offset |-> 0, length |-> 0,
     message |-> 0, temp |-> 0, long_msg_len |-> 0, long_msg_capacity |-> 0,
     data_capacity |-> 0]

\* the shift of line 67 without the mask 0x7F
ShiftIn_unmasked(result, byte) ==
    ((result % 16777216) * 128) + byte

\* result << 7 | (byte & 0x7F) on the 32-bit int `result`: the bits shifted
\* beyond bit 31 are lost and bit 31 is the sign
ShiftIn(result, byte) ==
    LET low == ((result % 16777216) * 128) + (byte % 128)
    IN  IF (result \div 16777216) % 2 = 1
        THEN (low - 1073741824) - 1073741824
        ELSE low

\* the do-while of decode_variable_length, lines 65-68; rd is the indices of
\* data[] read so far
RECURSIVE decode_loop(_, _, _)
decode_loop(t, res, rd) ==
    UNION { LET r2 == ShiftIn(res, byte)
                t2 == [t EXCEPT !.offset = @ + 1]
                rd2 == Append(rd, t.offset)
            IN  IF byte >= 128 /\ t2.offset < t2.length
                THEN decode_loop(t2, r2, rd2)
                ELSE {[result |-> r2, track |-> t2, reads |-> rd2]}
          : byte \in ReadByte(t, t.offset) }

\* decode_variable_length without the test of line 64
decode_variable_length_no_entry_test(t) ==
    decode_loop(t, 0, <<>>)

\* decode_variable_length: the possible (result, track after the call, indices
\* read)
decode_variable_length(t) ==
    IF t.offset >= t.length
    THEN {[result |-> 0, track |-> t, reads |-> <<>>]}
    ELSE decode_loop(t, 0, <<>>)

update_tick(t) ==
    { [r.track EXCEPT !.tick = Add32(@, r.result)] : r \in decode_variable_length(t) }

update_command(t) ==
    IF t.length = 0 \/ t.data = NULL
    THEN {t}
    ELSE { IF temp >= 128
           THEN [t EXCEPT !.offset = @ + 1, !.message = temp]
           ELSE t
         : temp \in ReadByte(t, t.offset) }

\* two data bytes: lines 92-93 and 98-99
TwoDataBytes(t) ==
    { [t EXCEPT !.temp = BitOr(d0 * 256, d1 * 65536), !.offset = @ + 2]
      : d0 \in ReadByte(t, t.offset), d1 \in ReadByte(t, t.offset + 1) }

\* lines 95-96 taking two data bytes, as lines 92-93 do
OneDataByte_two_bytes(t) ==
    { [t EXCEPT !.temp = BitOr(d0 * 256, d1 * 65536), !.offset = @ + 2]
      : d0 \in ReadByte(t, t.offset), d1 \in ReadByte(t, t.offset + 1) }

\* one data byte: lines 95-96
OneDataByte(t) ==
    { [t EXCEPT !.temp = d0 * 256, !.offset = @ + 1] : d0 \in ReadByte(t, t.offset) }

\* memcpy(track->long_msg, &track->data[track->offset], track->long_msg_len),
\* on the bytes of long_msg the model keeps
RECURSIVE memcpy_long_msg(_, _)
memcpy_long_msg(t, k) ==
    IF k >= t.long_msg_len \/ k >= LongMsgView
    THEN {t}
    ELSE UNION { memcpy_long_msg([t EXCEPT !.long_msg[k + 1] = b], k + 1)
                 : b \in ReadByte(t, t.offset + k) }

\* meta and SysEx: lines 101-118
LongMessage(t, msg_type) ==
    UNION { LET t1 == [t EXCEPT !.temp = IF msg_type = 255 THEN d0 * 256 ELSE 0,
                                !.offset = @ + 1]
            IN  UNION { LET t2 == [r.track EXCEPT
                                     !.long_msg_len = r.result,
                                     !.long_msg_capacity =
                                         IF @ < r.result THEN r.result ELSE @]
                        IN  { [t3 EXCEPT !.offset = @ + t3.long_msg_len]
                              : t3 \in memcpy_long_msg(t2, 0) }
                      : r \in decode_variable_length(t1) }
          : d0 \in IF msg_type = 255 THEN ReadByte(t, t.offset) ELSE {0} }

update_message(t) ==
    IF t.length = 0 \/ t.data = NULL
    THEN {t}
    ELSE LET msg_type == t.message % 256
             decoded == IF msg_type < 192 THEN TwoDataBytes(t)
                        ELSE IF msg_type < 224 THEN OneDataByte(t)
                        ELSE IF msg_type < 240 THEN TwoDataBytes(t)
                        ELSE IF msg_type = 255 \/ msg_type = 240
                             THEN LongMessage(t, msg_type)
                        ELSE {t}
         IN  { [t1 EXCEPT !.message = BitOr(@, t1.temp)] : t1 \in decoded }

\* what reading long_msg[k] can give, k counted from 0
ReadLongMsg(t, k) ==
    IF t.long_msg[k + 1] = -1 THEN IndeterminateBytes ELSE {t.long_msg[k + 1]}

\* line 129 without the clamp
MinOne_unclamped(num, den) ==
    [num |-> num, den |-> den]

\* the clamp of line 129 on the fraction num/den
MinOne(num, den) ==
    IF num < den THEN [num |-> 1, den |-> 1] ELSE [num |-> num, den |-> den]

\* process_meta_event without lines 132-134
process_meta_event_keeps_track(t, mult, b, div) ==
    LET meta_type == (t.message \div 256) % 256
    IN  IF meta_type = 81
        THEN { [track |-> t,
                bpm |-> b0 * 65536 + b1 * 256 + b2,
                multiplier |-> MinOne((b0 * 65536 + b1 * 256 + b2) * 10, div)]
               : b0 \in ReadLongMsg(t, 0), b1 \in ReadLongMsg(t, 1),
                 b2 \in ReadLongMsg(t, 2) }
        ELSE { [track |-> t, bpm |-> b, multiplier |-> mult] }

\* process_meta_event: the possible (track, multiplier, bpm) after the call
process_meta_event(t, mult, b, div) ==
    LET meta_type == (t.message \div 256) % 256
    IN  IF meta_type = 81
        THEN { [track |-> t,
                bpm |-> b0 * 65536 + b1 * 256 + b2,
                multiplier |-> MinOne((b0 * 65536 + b1 * 256 + b2) * 10, div)]
               : b0 \in ReadLongMsg(t, 0), b1 \in ReadLongMsg(t, 1),
                 b2 \in ReadLongMsg(t, 2) }
        ELSE IF meta_type = 47
        THEN { [track |-> [t EXCEPT !.data = NULL, !.length = 0],
                bpm |-> b, multiplier |-> mult] }
        ELSE { [track |-> t, bpm |-> b, multiplier |-> mult] }

\* main.c note_on(channel, note, velocity): the MidiEvent it builds from its
\* parameters, bound in the order the caller passes the arguments
note_on(channel, note, velocity) ==
    [note |-> note, velocity |-> velocity, channel |-> channel, isNoteOn |-> TRUE,
     timestamp |-> Len(notes) + 1]

\* main.c note_off(channel, note)
note_off(channel, note) ==
    [note |-> note, velocity |-> 0, channel |-> channel, isNoteOn |-> FALSE,
     timestamp |-> Len(notes) + 1]

\* PlayMIDI(file, note_on, note_off, ...) hands the consumer's functions to
\* play_midi as note_on_callback and note_off_callback
note_on_callback(a1, a2, a3) == note_on(a1, a2, a3)
note_off_callback(a1, a2) == note_off(a1, a2)

\* play_midi lines 224-250: the callback invocations of one decoded message
Dispatch(message) ==
    LET status_byte == message % 256
        channel == status_byte % 16
        command == status_byte - channel
        note == (message \div 256) % 256
        velocity == (message \div 65536) % 256
    IN  IF command = 144
        THEN IF velocity > 0
             THEN <<[cb |-> "note_on", args |-> <<velocity, channel, note>>,
                     ev |-> note_on_callback(velocity, channel, note)]>>
             ELSE <<[cb |-> "note_off", args |-> <<channel, note>>,
                     ev |-> note_off_callback(channel, note)]>>
        ELSE IF command = 128
        THEN <<[cb |-> "note_off", args |-> <<channel, note>>,
                ev |-> note_off_callback(channel, note)]>>
        ELSE <<>>

\* for the history: a byte of the track's buffer, -1 outside it. An entry of
\* the history carries the track, its tick and the global tick at the call,
\* the cursor `off` where the event's decoding started, whether the event
\* came in running status, the status byte in force, the two bytes d1 d2
\* at the cursor after the status slot, and the decoded message.
RawByte(t, k) ==
    IF t.data # NULL /\ k < Len(mem[t.data]) THEN mem[t.data][k + 1] ELSE -1

\* no pass through lines 286-299 yet
NotPaced == [step |-> "none", ideal |-> 0, drift |-> 0, request |-> 0]

\* play_midi lines 184-208; pthread_create (line 206) starts the thread of
\* log_notes_per_second
PlayEntry ==
    /\ ppc = "entry"
    /\ tick' = 0
    /\ multiplier' = [num |-> 0, den |-> 1]
    /\ bpm' = 500000
    /\ delta_tick' = 0
    /\ note_on_count' = 0
    /\ is_playing' = TRUE
    /\ has_active_tracks' = TRUE
    /\ delta' = 0
    /\ old' = 0
    /\ pace_temp' = 0
    /\ paced' = NotPaced
    /\ spc' = "test"
    /\ ppc' = "while"
    /\ UNCHANGED <<mem, tracks, track_count, time_div, active_tracks, i, notes, clock>>
    /\ UNCHANGED reported
    /\ UNCHANGED nonplay

\* play_midi lines 210-214: the head of the pump loop
WhileHead ==
    /\ ppc = "while"
    /\ IF has_active_tracks
       THEN /\ has_active_tracks' = FALSE
            /\ active_tracks' = <<>>
            /\ i' = 0
            /\ ppc' = "for"
       ELSE /\ ppc' = "finish"
            /\ UNCHANGED <<has_active_tracks, active_tracks, i>>
    /\ UNCHANGED <<mem, tracks, track_count, time_div, tick, multiplier, bpm,
                   delta_tick, note_on_count, is_playing, notes>>
    /\ UNCHANGED tvars
    /\ UNCHANGED svars
    /\ UNCHANGED nonplay

\* a decode step is taken while the cursor is at most MaxOverrun past the buffer
WithinOverrun(t) == t.offset <= Len(mem[t.data]) + MaxOverrun

\* play_midi lines 220-255: one iteration of the loop over the due events of
\* track i
ProcessEvent ==
    /\ ppc = "for"
    /\ i < track_count
    /\ tracks[i].data # NULL
    /\ ULessEq(tracks[i].tick, tick)
    /\ WithinOverrun(tracks[i])
    /\ \E t1 \in update_command(tracks[i]) :
       \E t2 \in update_message(t1) :
          LET message == t2.message
              status_byte == message % 256
              command == status_byte - (status_byte % 16)
              called == Dispatch(message)
              raw == [track |-> i, ttick |-> tracks[i].tick, gtick |-> tick,
                      off |-> tracks[i].offset, message |-> message,
                      running |-> (t1.offset = tracks[i].offset),
                      status |-> t1.message % 256,
                      d1 |-> RawByte(t1, t1.offset),
                      d2 |-> RawByte(t1, t1.offset + 1)]
          IN  /\ notes' = notes \o [k \in 1..Len(called) |-> called[k] @@ raw]
              /\ note_on_count' = IF command = 144 THEN note_on_count + 1
                                  ELSE note_on_count
              /\ \E m \in (IF status_byte = 255
                           THEN process_meta_event(t2, multiplier, bpm, time_div)
                           ELSE {[track |-> t2, bpm |-> bpm,
                                  multiplier |-> multiplier]}) :
                   /\ bpm' = m.bpm
                   /\ multiplier' = m.multiplier
                   /\ \E t3 \in (IF m.track.data # NULL THEN update_tick(m.track)
                                 ELSE {m.track}) :
                        tracks' = [tracks EXCEPT ![i] = t3]
    /\ UNCHANGED <<mem, track_count, time_div, tick, delta_tick, is_playing,
                   has_active_tracks, active_tracks, i, ppc>>
    /\ UNCHANGED tvars
    /\ UNCHANGED svars
    /\ UNCHANGED nonplay

\* update_command reads data[offset] outside the allocated buffer (line 79)
CommandReadsOutside(t) ==
    t.length # 0 /\ t.data # NULL /\ t.offset >= Len(mem[t.data])

\* update_message reads outside the allocated buffer (lines 92, 95, 98, 101, 117)
MessageReadsOutside(t) ==
    /\ t.length # 0 /\ t.data # NULL
    /\ LET msg_type == t.message % 256
           n == Len(mem[t.data])
       IN  IF msg_type < 192 \/ (msg_type >= 224 /\ msg_type < 240)
           THEN t.offset + 1 >= n
           ELSE IF msg_type < 224
           THEN t.offset >= n
           ELSE IF msg_type = 255 \/ msg_type = 240
           THEN \/ msg_type = 255 /\ t.offset >= n
                \/ \E r \in decode_variable_length([t EXCEPT !.offset = @ + 1]) :
                      r.result > 0 /\ r.track.offset + r.result > n
           ELSE FALSE

ReadsOutside(t) ==
    \/ CommandReadsOutside(t)
    \/ \E t1 \in update_command(t) : MessageReadsOutside(t1)

\* play_midi lines 220-222: the iteration reads outside the buffer of track i
\* and the invalid read ends the process (the other outcome of the read, a
\* byte of whatever lies there, is followed by ProcessEvent)
InvalidRead ==
    /\ ppc = "for"
    /\ i < track_count
    /\ tracks[i].data # NULL
    /\ ULessEq(tracks[i].tick, tick)
    /\ ReadsOutside(tracks[i])
    /\ ppc' = "fault"
    /\ UNCHANGED <<mem, tracks, track_count, time_div, tick, multiplier, bpm,
                   delta_tick, note_on_count, is_playing, has_active_tracks,
                   active_tracks, i, notes>>
    /\ UNCHANGED tvars
    /\ UNCHANGED svars
    /\ UNCHANGED nonplay

\* lines 216-262 leaving track i whether or not it has a due event
NextTrack_leaves_due ==
    /\ ppc = "for"
    /\ i < track_count
    /\ IF tracks[i].data # NULL
       THEN /\ active_tracks' = Append(active_tracks, i)
            /\ has_active_tracks' = TRUE
       ELSE UNCHANGED <<active_tracks, has_active_tracks>>
    /\ i' = i + 1
    /\ UNCHANGED <<mem, tracks, track_count, time_div, tick, multiplier, bpm,
                   delta_tick, note_on_count, is_playing, ppc, notes>>
    /\ UNCHANGED tvars
    /\ UNCHANGED svars
    /\ UNCHANGED nonplay

\* play_midi lines 216-218 and 256-262: track i has no due event (any more)
NextTrack ==
    /\ ppc = "for"
    /\ i < track_count
    /\ ~(tracks[i].data # NULL /\ ULessEq(tracks[i].tick, tick))
    /\ IF tracks[i].data # NULL
       THEN /\ active_tracks' = Append(active_tracks, i)
            /\ has_active_tracks' = TRUE
       ELSE UNCHANGED <<active_tracks, has_active_tracks>>
    /\ i' = i + 1
    /\ UNCHANGED <<mem, tracks, track_count, time_div, tick, multiplier, bpm,
                   delta_tick, note_on_count, is_playing, ppc, notes>>
    /\ UNCHANGED tvars
    /\ UNCHANGED svars
    /\ UNCHANGED nonplay

\* lines 271-280 taking the distance of the first active track
FindNextTick_first(k, d) ==
    IF k > Len(active_tracks) THEN d ELSE tracks[active_tracks[k]].tick - tick

\* play_midi lines 271-280 from position k of active_tracks on
RECURSIVE FindNextTick(_, _)
FindNextTick(k, d) ==
    IF k > Len(active_tracks)
    THEN d
    ELSE LET idx == active_tracks[k]
             track_delta == tracks[idx].tick - tick
         IN  IF tracks[idx].data # NULL /\ ULess(track_delta, d)
             THEN FindNextTick(k + 1, track_delta)
             ELSE FindNextTick(k + 1, d)

\* play_midi lines 265-268: no track is active, the loop is left
Break ==
    /\ ppc = "for"
    /\ i = track_count
    /\ ~has_active_tracks
    /\ ppc' = "finish"
    /\ UNCHANGED <<mem, tracks, track_count, time_div, tick, multiplier, bpm,
                   delta_tick, note_on_count, is_playing, has_active_tracks,
                   active_tracks, i, notes>>
    /\ UNCHANGED tvars
    /\ UNCHANGED svars
    /\ UNCHANGED nonplay

\* const uint64_t max_drift, line 189
max_drift == 100000

\* what delayExecution100Ns(d) sleeps: nanosleep rejects a negative interval
\* and returns at once
delayExecution100Ns(d) == IF d > 0 THEN d ELSE 0

\* now - last_time at line 287: the time the last call of delayExecution100Ns
\* slept and, beyond it, one of the latenesses of the clock
Elapsed ==
    { (IF paced.step = "sleep" THEN delayExecution100Ns(paced.request) ELSE 0) + e
      : e \in clock }

\* delta_tick * multiplier converted to uint64_t, line 290; the conversion of
\* a double that is too large is undefined (here: 0 or all ones)
IdealDelay(dt, mult) ==
    IF mult.num = 0 THEN {0}
    ELSE IF dt >= 0 THEN {(dt * mult.num) \div mult.den}
    ELSE {0, UINT64_MAX}

\* line 296
ClampDrift(d) == IF d < max_drift THEN d ELSE max_drift

\* lines 270-299 with the global tick moved 5 ticks further when the loop is
\* more than max_drift late
AdvanceTick_catches_up ==
    /\ ppc = "for"
    /\ i = track_count
    /\ has_active_tracks
    /\ delta_tick' = FindNextTick(1, UINT64_MAX)
    /\ \E elapsed \in Elapsed :
       \E ideal \in IdealDelay(delta_tick', multiplier) :
          LET temp1 == elapsed - old
              drift == delta + temp1
              temp2 == IF drift > 0 THEN ideal - drift ELSE ideal
          IN  /\ tick' = tick + delta_tick' + (IF drift > max_drift THEN 5 ELSE 0)
              /\ old' = ideal
              /\ pace_temp' = temp2
              /\ IF temp2 = 0
                 THEN /\ delta' = ClampDrift(drift)
                      /\ paced' = [step |-> "clamp", ideal |-> ideal,
                                   drift |-> drift, request |-> 0]
                 ELSE /\ delta' = drift
                      /\ paced' = [step |-> "sleep", ideal |-> ideal,
                                   drift |-> drift, request |-> temp2]
    /\ ppc' = "while"
    /\ UNCHANGED <<mem, tracks, track_count, time_div, multiplier, bpm,
                   note_on_count, is_playing, has_active_tracks, active_tracks,
                   i, notes, clock>>
    /\ UNCHANGED svars
    /\ UNCHANGED nonplay

\* play_midi lines 270-299: the global tick moves to the next due event, then
\* the loop waits for it. The uint64_t values temp and old are kept as
\* integers, a negative one standing for the value 2^64 larger; the int64_t
\* delta is the integer itself.
AdvanceTick ==
    /\ ppc = "for"
    /\ i = track_count
    /\ has_active_tracks
    /\ delta_tick' = FindNextTick(1, UINT64_MAX)
    /\ tick' = tick + delta_tick'
    /\ \E elapsed \in Elapsed :
       \E ideal \in IdealDelay(delta_tick', multiplier) :
          LET temp1 == elapsed - old
              drift == delta + temp1
              temp2 == IF drift > 0 THEN ideal - drift ELSE ideal
          IN  /\ old' = ideal
              /\ pace_temp' = temp2
              /\ IF temp2 = 0
                 THEN /\ delta' = ClampDrift(drift)
                      /\ paced' = [step |-> "clamp", ideal |-> ideal,
                                   drift |-> drift, request |-> 0]
                 ELSE /\ delta' = drift
                      /\ paced' = [step |-> "sleep", ideal |-> ideal,
                                   drift |-> drift, request |-> temp2]
    /\ ppc' = "while"
    /\ UNCHANGED <<mem, tracks, track_count, time_div, multiplier, bpm,
                   note_on_count, is_playing, has_active_tracks, active_tracks,
                   i, notes, clock>>
    /\ UNCHANGED svars
    /\ UNCHANGED nonplay

\* play_midi leaving its loop without clearing is_playing
Finish_keeps_playing ==
    /\ ppc = "finish"
    /\ ppc' = "join"
    /\ UNCHANGED <<mem, tracks, track_count, time_div, tick, multiplier, bpm,
                   delta_tick, note_on_count, is_playing, has_active_tracks,
                   active_tracks, i, notes>>
    /\ UNCHANGED tvars
    /\ UNCHANGED svars
    /\ UNCHANGED nonplay

\* play_midi line 302
Finish ==
    /\ ppc = "finish"
    /\ is_playing' = FALSE
    /\ ppc' = "join"
    /\ UNCHANGED <<mem, tracks, track_count, time_div, tick, multiplier, bpm,
                   delta_tick, note_on_count, has_active_tracks, active_tracks,
                   i, notes>>
    /\ UNCHANGED tvars
    /\ UNCHANGED svars
    /\ UNCHANGED nonplay

\* log_notes_per_second lines 148, 155-156: the test of the loop finds
\* *is_playing false and the thread returns
SamplerExit ==
    /\ spc = "test"
    /\ ~is_playing
    /\ spc' = "done"
    /\ UNCHANGED reported
    /\ UNCHANGED <<pvars, tvars>>
    /\ UNCHANGED nonplay

\* play_midi lines 303-304: pthread_join returns once the thread of
\* log_notes_per_second has returned
Join ==
    /\ ppc = "join"
    /\ spc = "done"
    /\ ppc' = "returned"
    /\ UNCHANGED <<mem, tracks, track_count, time_div, tick, multiplier, bpm,
                   delta_tick, note_on_count, is_playing, has_active_tracks,
                   active_tracks, i, notes>>
    /\ UNCHANGED tvars
    /\ UNCHANGED svars
    /\ UNCHANGED nonplay

\* play_midi with the thread of log_notes_per_second not scheduled before
\* is_playing is cleared
NextPlay ==
    \/ PlayEntry
    \/ WhileHead
    \/ ProcessEvent
    \/ InvalidRead
    \/ NextTrack
    \/ Break
    \/ AdvanceTick
    \/ Finish
    \/ SamplerExit
    \/ Join

\* log_notes_per_second lines 148-150: the test of the loop finds *is_playing
\* true and nanosleep is called for one second
SamplerLoop ==
    /\ spc = "test"
    /\ is_playing
    /\ Len(reported) < MaxReports
    /\ spc' = "sleep"
    /\ UNCHANGED reported
    /\ UNCHANGED <<pvars, tvars>>
    /\ UNCHANGED nonplay

\* line 150: nanosleep returns
SamplerWake ==
    /\ spc = "sleep"
    /\ spc' = "print"
    /\ UNCHANGED reported
    /\ UNCHANGED <<pvars, tvars>>
    /\ UNCHANGED nonplay

\* line 151: *note_on_count is read and printed
SamplerPrint ==
    /\ spc = "print"
    /\ reported' = Append(reported, note_on_count)
    /\ spc' = "reset"
    /\ UNCHANGED <<pvars, tvars>>
    /\ UNCHANGED nonplay

\* line 152
SamplerReset ==
    /\ spc = "reset"
    /\ note_on_count' = 0
    /\ spc' = "test"
    /\ UNCHANGED reported
    /\ UNCHANGED <<mem, tracks, track_count, time_div, tick, multiplier, bpm,
                   delta_tick, is_playing, has_active_tracks, active_tracks, i,
                   ppc, notes>>
    /\ UNCHANGED tvars
    /\ UNCHANGED nonplay

\* the steps of the thread of log_notes_per_second
NextSampler ==
    \/ SamplerLoop
    \/ SamplerWake
    \/ SamplerPrint
    \/ SamplerReset
    \/ SamplerExit

\* play_midi and the thread of log_notes_per_second, interleaved
NextSampled ==
    \/ NextPlay
    \/ SamplerLoop
    \/ SamplerWake
    \/ SamplerPrint
    \/ SamplerReset

(***************************************************************************)
(* Input files and initial states                                          *)
(***************************************************************************)
\* delta-times of the generated events (one-byte quantities)
Deltas == {0, 5}
\* events with a status byte: Note-On ch 1 (91 3C 40), Note-Off ch 1 (81 3C 40),
\* Note-On ch 1 with velocity 0 (91 3C 00)
StatusEvents == {<<145, 60, 64>>, <<129, 60, 64>>, <<145, 60, 0>>}
\* an event in running status: two data bytes (43 00)
RunningEvents == {<<67, 0>>}
\* delta-time 0, FF 2F 00
EndOfTrack == <<0, 255, 47, 0>>

\* the byte strings of n events; the first event of a track carries its status
RECURSIVE EventSeqs(_, _)
EventSeqs(n, first) ==
    IF n = 0
    THEN {<<>>}
    ELSE { <<d>> \o e \o rest :
             d \in Deltas,
             e \in (IF first THEN StatusEvents ELSE StatusEvents \cup RunningEvents),
             rest \in EventSeqs(n - 1, FALSE) }

\* well-formed track chunks of n events, closed by End-of-Track
WellFormedTracks(n) == { s \o EndOfTrack : s \in EventSeqs(n, TRUE) }

\* the files of k well-formed tracks with at most budget events together
RECURSIVE WellFormedFiles(_, _)
WellFormedFiles(k, budget) ==
    IF k = 0
    THEN {<<>>}
    ELSE UNION { { <<tr>> \o rest : tr \in WellFormedTracks(n),
                                    rest \in WellFormedFiles(k - 1, budget - n) }
                 : n \in 0..budget }

\* track A with Note-Ons at ticks 0, 10, 20 and track B with Note-Ons at ticks
\* 0, 5, 15
MergeExample ==
    << <<0, 144, 60, 64, 10, 144, 62, 64, 10, 144, 64, 64>> \o EndOfTrack,
       <<0, 145, 48, 64, 5, 145, 50, 64, 10, 145, 52, 64>> \o EndOfTrack >>

\* Track A: a SysEx event F0 02 05 F7 at tick 0, a Note-On at tick 5 and a
\* Note-On (note 62) at tick 5. Track B: a Note-On at tick 0.
SysExThenNotes ==
    << <<0, 240, 2, 5, 247, 5, 144, 60, 64, 0, 144, 62, 64>> \o EndOfTrack,
       <<0, 145, 48, 64>> \o EndOfTrack >>

\* one track: a SysEx event F0 02 03 F7, then End-of-Track
SysExThenEnd == << <<0, 240, 2, 3, 247>> \o EndOfTrack >>

\* Track A: a Note-On at tick 0, End-of-Track, and after it the bytes of a
\* Note-On (note 62) at delta-time 5. Track B: a Note-On at tick 0 and a
\* Note-Off at tick 10.
AfterEndExample ==
    << <<0, 145, 60, 64>> \o EndOfTrack \o <<5, 145, 62, 64>>,
       <<0, 146, 48, 64, 10, 130, 48, 64>> \o EndOfTrack >>

\* payload bytes of the generated Set-Tempo events
TempoBytes == {0, 7, 32, 161, 255}

\* one track: a Set-Tempo event FF 51 03 b0 b1 b2 at tick 0, a Note-On at tick
\* 5, End-of-Track
TempoFiles ==
    { << <<0, 255, 81, 3, b0, b1, b2, 5, 145, 60, 64>> \o EndOfTrack >> :
        b0 \in TempoBytes, b1 \in TempoBytes, b2 \in TempoBytes }

\* divisions (ticks per quarter note) of the header chunk
TimeDivs == {1, 480}

\* the divisions a file is played at: the files with a Set-Tempo event at each
\* of TimeDivs, the others at 480
Divisions(smf) == IF smf \in TempoFiles THEN TimeDivs ELSE {480}

\* load_midi_file lines 401-410 for the chunk at pointer p
LoadedTrack(p) ==
    CHOOSE t \in update_tick([init_track_data EXCEPT
                                !.data = p,
                                !.long_msg = [k \in 1..LongMsgView |-> -1],
                                !.long_msg_capacity = 256,
                                !.length = Len(mem[p]),
                                !.data_capacity = Len(mem[p])]) : TRUE

\* the state load_midi_file leaves for the chunks of `file`, at the call of
\* play_midi
Loaded(smf) ==
    /\ mem = smf
    /\ track_count = Len(smf)
    /\ tracks = [k \in 0..(Len(smf) - 1) |-> LoadedTrack(k + 1)]
    /\ time_div \in Divisions(smf)
    /\ tick = 0
    /\ multiplier = [num |-> 0, den |-> 1]
    /\ bpm = 0
    /\ delta_tick = 0
    /\ note_on_count = 0
    /\ is_playing = FALSE
    /\ has_active_tracks = FALSE
    /\ active_tracks = <<>>
    /\ i = 0
    /\ ppc = "entry"
    /\ notes = <<>>
    /\ delta = 0
    /\ old = 0
    /\ pace_temp = 0
    /\ paced = NotPaced
    /\ spc = "none"
    /\ reported = <<>>

\* the event queue is not used
QueueParked ==
    /\ eventQueue = init_event_queue
    /\ nprod = 0
    /\ ncons = 0
    /\ qpc = [t \in Threads |-> "idle"]
    /\ arg = [t \in Threads |-> ZeroEvent]
    /\ out = [t \in Threads |-> UninitEvent]
    /\ success = [t \in Threads |-> FALSE]
    /\ ret = [t \in Threads |-> "none"]
    /\ pushCalls = 0
    /\ accepted = <<>>
    /\ popped = <<>>
    /\ returned = [t \in Threads |-> <<>>]
    /\ rpc = [t \in Threads |-> "off"]
    /\ activeNotes = {}
    /\ textureNeedsUpdate = FALSE

\* play_midi is not running; the heap holds the buffers m
PlayIdle(m) ==
    /\ mem = m
    /\ track_count = 0
    /\ tracks = <<>>
    /\ time_div = 0
    /\ tick = 0
    /\ multiplier = [num |-> 0, den |-> 1]
    /\ bpm = 0
    /\ delta_tick = 0
    /\ note_on_count = 0
    /\ is_playing = FALSE
    /\ has_active_tracks = FALSE
    /\ active_tracks = <<>>
    /\ i = 0
    /\ ppc = "off"
    /\ notes = <<>>
    /\ delta = 0
    /\ old = 0
    /\ pace_temp = 0
    /\ paced = NotPaced
    /\ clock = {}
    /\ spc = "none"
    /\ reported = <<>>

\* no file is played
PlayParked == PlayIdle(<<>>)

\* no call of decode_variable_length is observed
DecodeParked ==
    /\ dpc = "off"
    /\ entry = init_track_data
    /\ dtrack = init_track_data
    /\ dresult = 0
    /\ reads = <<>>

\* load_midi_file is not called
LoadParked ==
    /\ file = <<>>
    /\ fpos = 0
    /\ lpc = "off"
    /\ header = <<0, 0, 0, 0>>
    /\ num_tracks = 0
    /\ valid_tracks = 0
    /\ li = 0
    /\ load_ret = "none"

vars == <<qvars, rvars, pvars, tvars, svars, dvars, lvars>>

\* producers and consumers on the event queue
InitQueueOnly == InitQueue /\ PlayParked /\ DecodeParked /\ LoadParked

SpecQueue == InitQueueOnly /\ [][NextQueue]_vars

\* note_on / note_off on the scheduler thread against update_texture on the
\* render thread
InitRenderOnly == InitRender /\ PlayParked /\ DecodeParked /\ LoadParked

SpecRender == InitRenderOnly /\ [][NextRender]_vars

\* a clock that reads the time asked for: each sleep takes what was requested
\* and the rest of the loop takes no time
SteadyClock == {0}

\* play_midi on well-formed files
InitPlay ==
    /\ QueueParked
    /\ DecodeParked
    /\ LoadParked
    /\ \E smf \in WellFormedFiles(NumTracks, MaxEvents)
                      \cup {MergeExample, SysExThenNotes, SysExThenEnd,
                            AfterEndExample}
                      \cup TempoFiles :
          Loaded(smf)
    /\ clock = SteadyClock

SpecPlay == InitPlay /\ [][NextPlay]_vars

\* play_midi runs on its own thread, which the scheduler keeps running
FairSpecPlay == SpecPlay /\ WF_vars(NextPlay)

\* a chunk cut off after any number of its bytes
Truncations(tr) == { SubSeq(tr, 1, m) : m \in 0..Len(tr) }

\* the files of k tracks, whole or truncated, with at most budget events together
RECURSIVE AnyFiles(_, _)
AnyFiles(k, budget) ==
    IF k = 0
    THEN {<<>>}
    ELSE UNION { { <<tr>> \o rest :
                     tr \in UNION { Truncations(w) : w \in WellFormedTracks(n) },
                     rest \in AnyFiles(k - 1, budget - n) }
                 : n \in 0..budget }

\* one-track files: a Set-Tempo event FF 51 03 cut after the first of its three
\* payload bytes; an event of data bytes 3C 40 with no status byte before it;
\* a Note-On at tick 5 followed by a Note-On whose delta-time is the five-byte
\* quantity FF FF FF FF 7D; a Note-On whose delta-time is the five-byte
\* quantity FF FF FF FF 7F; a Set-Tempo FF 51 03 07 A1 20 followed by a
\* Set-Tempo with an empty payload, FF 51 00, and a Note-On at tick 5; the
\* same with a text event FF 01 03 01 02 03 in place of the first Set-Tempo
MalformedExamples ==
    { << <<0, 255, 81, 3, 7>> >>,
      << <<0, 60, 64>> >>,
      << <<5, 145, 60, 64, 255, 255, 255, 255, 125, 62, 64>> \o EndOfTrack >>,
      << <<255, 255, 255, 255, 127, 145, 60, 64>> \o EndOfTrack >>,
      << <<0, 255, 81, 3, 7, 161, 32, 0, 255, 81, 0, 5, 145, 60, 64>>
             \o EndOfTrack >>,
      << <<0, 255, 1, 3, 1, 2, 3, 0, 255, 81, 0, 5, 145, 60, 64>>
             \o EndOfTrack >> }

\* play_midi on files whose chunks may end anywhere

InitPlayAny ==
    /\ QueueParked
    /\ DecodeParked
    /\ LoadParked
    /\ \E smf \in AnyFiles(NumTracks, MaxEventsAny) \cup MalformedExamples :
          Loaded(smf)
    /\ clock = SteadyClock

SpecPlayAny == InitPlayAny /\ [][NextPlay]_vars

\* latenesses of the clock, in units of 100 ns: none, 6 ms, 20 ms
PaceClock == {0, 60000, 200000}

\* play_midi under a clock that may read late at each pass of the pump loop
InitPace ==
    /\ QueueParked
    /\ DecodeParked
    /\ LoadParked
    /\ \E smf \in TempoFiles \cup {MergeExample, SysExThenEnd} :
          Loaded(smf)
    /\ clock = PaceClock

SpecPace == InitPace /\ [][NextPlay]_vars

\* two Note-Ons on one track, at ticks 0 and 5
TwoNotes == << <<0, 145, 60, 64, 5, 145, 62, 64>> \o EndOfTrack >>

\* play_midi with the thread of log_notes_per_second running beside it, under
\* a clock that may read late
InitSampled ==
    /\ QueueParked
    /\ DecodeParked
    /\ LoadParked
    /\ \E smf \in {TwoNotes, MergeExample, AfterEndExample, SysExThenEnd} :
          Loaded(smf)
    /\ clock = PaceClock

SpecSampled == InitSampled /\ [][NextSampled]_vars

\* both threads are scheduled again and again
FairSpecSampled == SpecSampled /\ WF_vars(NextPlay) /\ WF_vars(NextSampler)

(***************************************************************************)
(* One call of update_tick (decode_variable_length) on a buffer            *)
(***************************************************************************)
\* longest buffer handed to the call
DecodeMaxLen == 5
\* the bytes of the buffers: 7-bit groups 0, 1 and 127, with and without the
\* continuation bit
DecodeBytes == {0, 1, 127, 128, 255}

\* track->tick at the call: 0, and 8 * 0x0FFFFFFF, the tick after eight
\* delta-times FF FF FF 7F
EntryTicks == {0, 2147483640}

RECURSIVE DecodeBuffers(_)
DecodeBuffers(n) ==
    IF n = 0
    THEN {<<>>}
    ELSE LET shorter == DecodeBuffers(n - 1)
         IN  shorter \cup { Append(b, x) : b \in { c \in shorter : Len(c) = n - 1 },
                                            x \in DecodeBytes }

\* a track over `buffer` with its cursor anywhere from the start to the end
InitDecode ==
    /\ QueueParked
    /\ LoadParked
    /\ \E buffer \in DecodeBuffers(DecodeMaxLen) :
          /\ PlayIdle(<<buffer>>)
          /\ \E start \in 0..Len(buffer), at \in EntryTicks :
                entry = [init_track_data EXCEPT !.data = 1,
                                                !.length = Len(buffer),
                                                !.data_capacity = Len(buffer),
                                                !.offset = start,
                                                !.tick = at]
    /\ dpc = "call"
    /\ dtrack = init_track_data
    /\ dresult = 0
    /\ reads = <<>>

\* update_tick(&entry), lines 72-74: decode_variable_length(&entry), lines
\* 61-70, and the sum of line 73
DecodeCall ==
    /\ dpc = "call"
    /\ \E r \in decode_variable_length(entry) :
          /\ dresult' = r.result
          /\ dtrack' = [r.track EXCEPT !.tick = Add32(@, r.result)]
          /\ dtrack' \in update_tick(entry)
          /\ reads' = r.reads
    /\ dpc' = "done"
    /\ UNCHANGED entry
    /\ UNCHANGED nondecode

NextDecode == DecodeCall

SpecDecode == InitDecode /\ [][NextDecode]_vars

(***************************************************************************)
(* One channel message decoded by update_command and update_message        *)
(***************************************************************************)
\* status bytes of the channel messages: the ends of the ranges 80-BF, C0-DF
\* and E0-EF and the first status of each kind between
MessageStatusBytes == {128, 144, 160, 176, 191, 192, 208, 223, 224, 239}
\* data bytes
MessageDataBytes == {0, 64, 127}
\* track->message as an earlier event left it: Note-On 91 3C 40, Control-Change
\* B0 07 7F, Program-Change C1 05, Channel-Pressure D2 40, Pitch-Bend E3 00 40
LatchedMessages == {4209809, 8324016, 1473, 16594, 4194531}

\* an event of three bytes: a status byte or, in running status, a data byte,
\* then two data bytes
MessageBuffers ==
    { <<first, d1, d2>> : first \in MessageStatusBytes \cup MessageDataBytes,
                          d1 \in MessageDataBytes, d2 \in MessageDataBytes }

\* a track whose cursor stands on the event, after its delta-time
InitMessage ==
    /\ QueueParked
    /\ LoadParked
    /\ \E buffer \in MessageBuffers :
          /\ PlayIdle(<<buffer>>)
          /\ \E latched \in LatchedMessages :
                entry = [init_track_data EXCEPT !.data = 1,
                                                !.length = Len(buffer),
                                                !.data_capacity = Len(buffer),
                                                !.message = latched]
    /\ dpc = "event"
    /\ dtrack = init_track_data
    /\ dresult = 0
    /\ reads = <<>>

\* update_command(&entry); update_message(&entry), play_midi lines 221-222
DecodeEvent ==
    /\ dpc = "event"
    /\ \E t1 \in update_command(entry) :
       \E t2 \in update_message(t1) :
          dtrack' = t2
    /\ dpc' = "decoded"
    /\ UNCHANGED <<entry, dresult, reads>>
    /\ UNCHANGED nondecode

NextMessage == DecodeEvent

SpecMessage == InitMessage /\ [][NextMessage]_vars

(***************************************************************************)
(* load_midi_file                                                          *)
(***************************************************************************)
\* chunks after the header chunk in a generated file
MaxChunks == 3

MThd == <<77, 84, 104, 100>>
MTrk == <<77, 84, 114, 107>>

\* fntohs / fntohl of the bytes read: the big-endian value
BigEndian16(b) == b[1] * 256 + b[2]
BigEndian32(b) == ((b[1] * 256 + b[2]) * 256 + b[3]) * 256 + b[4]

\* fread of n bytes at the read position. The files of the model are whole, so
\* every fread is served in full.
fread(n) == SubSeq(file, fpos + 1, fpos + n)

\* load_midi_file lines 306-363: the header chunk
LoadHeader ==
    /\ lpc = "header"
    /\ LET magic == fread(4)
           header_length == BigEndian32(SubSeq(file, fpos + 5, fpos + 8))
           ntrks == BigEndian16(SubSeq(file, fpos + 11, fpos + 12))
           division == BigEndian16(SubSeq(file, fpos + 13, fpos + 14))
       IN  /\ header' = magic
           /\ IF magic # MThd
              THEN /\ fpos' = fpos + 4
                   /\ load_ret' = "NULL"
                   /\ lpc' = "done"
                   /\ UNCHANGED <<num_tracks, time_div, tracks>>
              ELSE IF header_length # 6
              THEN /\ fpos' = fpos + 8
                   /\ load_ret' = "NULL"
                   /\ lpc' = "done"
                   /\ UNCHANGED <<num_tracks, time_div, tracks>>
              ELSE IF division >= 32768
              THEN /\ fpos' = fpos + 14
                   /\ num_tracks' = ntrks
                   /\ time_div' = division
                   /\ load_ret' = "NULL"
                   /\ lpc' = "done"
                   /\ UNCHANGED tracks
              ELSE /\ fpos' = fpos + 14
                   /\ num_tracks' = ntrks
                   /\ time_div' = division
                   /\ tracks' = [k \in 0..(ntrks - 1) |-> init_track_data]
                   /\ lpc' = "chunks"
                   /\ UNCHANGED load_ret
    /\ UNCHANGED <<file, valid_tracks, li>>
    /\ UNCHANGED <<mem, track_count, tick, multiplier, bpm, delta_tick,
                   note_on_count, is_playing, has_active_tracks, active_tracks,
                   i, ppc, notes>>
    /\ UNCHANGED <<qvars, rvars, tvars, svars, dvars>>

\* load_midi_file lines 366-412: one iteration of the loop over the chunks
LoadChunk ==
    /\ lpc = "chunks"
    /\ li < num_tracks
    /\ header' = fread(4)
    /\ li' = li + 1
    /\ IF header' # MTrk
       THEN /\ fpos' = fpos + 4
            /\ UNCHANGED <<mem, tracks, valid_tracks>>
       ELSE LET length == BigEndian32(SubSeq(file, fpos + 5, fpos + 8))
                data == Len(mem) + 1
                set == [tracks[valid_tracks] EXCEPT
                          !.data = data,
                          !.long_msg = [k \in 1..LongMsgView |-> -1],
                          !.long_msg_capacity = 256,
                          !.length = length,
                          !.data_capacity = length,
                          !.tick = 0,
                          !.offset = 0,
                          !.message = 0,
                          !.temp = 0]
            IN  /\ mem' = Append(mem, SubSeq(file, fpos + 9, fpos + 8 + length))
                /\ fpos' = fpos + 8 + length
                \* update_tick, line 410, on the buffer just read
                /\ \E t \in {set} : \E t1 \in update_tick(t)' :
                      tracks' = [tracks EXCEPT ![valid_tracks] = t1]
                /\ valid_tracks' = valid_tracks + 1
    /\ UNCHANGED <<file, lpc, num_tracks, load_ret>>
    /\ UNCHANGED <<track_count, time_div, tick, multiplier, bpm, delta_tick,
                   note_on_count, is_playing, has_active_tracks, active_tracks,
                   i, ppc, notes>>
    /\ UNCHANGED <<qvars, rvars, tvars, svars, dvars>>

\* load_midi_file lines 414-424
LoadReturn ==
    /\ lpc = "chunks"
    /\ li >= num_tracks
    /\ track_count' = valid_tracks
    /\ load_ret' = "tracks"
    /\ lpc' = "done"
    /\ UNCHANGED <<file, fpos, header, num_tracks, valid_tracks, li>>
    /\ UNCHANGED <<mem, tracks, time_div, tick, multiplier, bpm, delta_tick,
                   note_on_count, is_playing, has_active_tracks, active_tracks,
                   i, ppc, notes>>
    /\ UNCHANGED <<qvars, rvars, tvars, svars, dvars>>

NextLoad ==
    \/ LoadHeader
    \/ LoadChunk
    \/ LoadReturn

\* a chunk: tag, 32-bit big-endian length, payload (shorter than 256 bytes)
Chunk(tag, payload) == tag \o <<0, 0, 0, Len(payload)>> \o payload

\* MTrk chunks (End-of-Track alone; a Note-On and End-of-Track; no bytes) and
\* chunks with another tag ("XFIH", with and without payload)
ChunkPool ==
    { Chunk(MTrk, EndOfTrack),
      Chunk(MTrk, <<0, 145, 60, 64>> \o EndOfTrack),
      Chunk(<<88, 70, 73, 72>>, <<>>),
      Chunk(<<88, 70, 73, 72>>, <<1, 2, 3, 4>>) }

RECURSIVE ChunkLists(_)
ChunkLists(n) ==
    IF n = 0
    THEN {<<>>}
    ELSE LET shorter == ChunkLists(n - 1)
         IN  shorter \cup { Append(l, c) : l \in { x \in shorter : Len(x) = n - 1 },
                                            c \in ChunkPool }

RECURSIVE Concat(_)
Concat(l) == IF l = <<>> THEN <<>> ELSE Head(l) \o Concat(Tail(l))

\* header chunks: magic MThd or RIFF, length 6 or 7, format 1, the number of
\* chunks that follow, division 480 or the SMPTE division E7 28
HeaderChunks(n) ==
    { magic \o <<0, 0, 0, hl>> \o <<0, 1>> \o <<0, n>> \o division :
        magic \in {MThd, <<82, 73, 70, 70>>},
        hl \in {6, 7},
        division \in {<<1, 224>>, <<231, 40>>} }

\* the caller passes a file with time_div = 0 and track_count = 0
InitLoad ==
    /\ QueueParked
    /\ DecodeParked
    /\ PlayIdle(<<>>)
    /\ \E l \in ChunkLists(MaxChunks) : \E h \in HeaderChunks(Len(l)) :
          file = h \o Concat(l)
    /\ fpos = 0
    /\ lpc = "header"
    /\ header = <<0, 0, 0, 0>>
    /\ num_tracks = 0
    /\ valid_tracks = 0
    /\ li = 0
    /\ load_ret = "none"

SpecLoad == InitLoad /\ [][NextLoad]_vars

(***************************************************************************)
(* Event queue: properties                                                 *)
(***************************************************************************)
IsPrefix(s, t) == Len(s) <= Len(t) /\ \A k \in 1..Len(s) : s[k] = t[k]

QueueFull(q) == (q.head + 1) % RING_BUFFER_SIZE = q.tail
QueueEmpty(q) == q.tail = q.head
SameQueueData(q1, q2) ==
    q1.head = q2.head /\ q1.tail = q2.tail /\ q1.events = q2.events

\* C1: with one producer and one consumer, the events the consumer's
\* successful pops returned are a prefix of the events the successful pushes
\* stored: same values, same order, none skipped, none twice.
C1_FifoPrefix ==
    (nprod = 1 /\ ncons = 1) =>
        \A c \in ActiveConsumers : IsPrefix(returned[c], accepted)

\* one producer, one consumer; every offered event went through the queue,
\* so the ring wrapped around
C1_Witness ==
    /\ nprod = 1 /\ ncons = 1
    /\ Len(accepted) = MaxPushes
    /\ returned[NumProducers + 1] = accepted

\* C2: queue_push on a full queue does not wait; it leaves head, tail and
\* every slot as they are, stores nothing and returns false.
C2_FullPushFails ==
    [][\A t \in Threads :
        /\ (qpc[t] = "push_body" /\ QueueFull(eventQueue)) =>
              /\ ENABLED PushBody(t)
              /\ qpc'[t] = "push_unlock" =>
                    /\ SameQueueData(eventQueue', eventQueue)
                    /\ success'[t] = FALSE
                    /\ accepted' = accepted
        /\ (qpc[t] = "push_unlock" /\ ~success[t] /\ qpc'[t] = "idle") =>
              /\ ret'[t] = "false"
              /\ SameQueueData(eventQueue', eventQueue)
      ]_vars

\* a push has returned false while the queue holds RING_BUFFER_SIZE - 1 events
C2_Witness ==
    \E t \in ActiveProducers :
        /\ ret[t] = "false"
        /\ qpc[t] = "idle"
        /\ QueueFull(eventQueue)
        /\ Len(accepted) - Len(popped) = RING_BUFFER_SIZE - 1

\* C3: queue_pop on an empty queue does not wait; it leaves head, tail, every
\* slot and the caller's event as they are and returns false.
C3_EmptyPopFails ==
    [][\A t \in Threads :
        /\ (qpc[t] = "pop_body" /\ QueueEmpty(eventQueue)) =>
              /\ ENABLED PopBody(t)
              /\ qpc'[t] = "pop_unlock" =>
                    /\ SameQueueData(eventQueue', eventQueue)
                    /\ out'[t] = out[t]
                    /\ success'[t] = FALSE
                    /\ popped' = popped
        /\ (qpc[t] = "pop_unlock" /\ ~success[t] /\ qpc'[t] = "idle") =>
              /\ ret'[t] = "false"
              /\ out'[t] = out[t]
              /\ SameQueueData(eventQueue', eventQueue)
      ]_vars

\* a pop has returned false on a queue emptied by earlier pops, and the
\* caller's event still is the one its last successful pop returned
C3_Witness ==
    \E t \in ActiveConsumers :
        /\ ret[t] = "false"
        /\ qpc[t] = "idle"
        /\ QueueEmpty(eventQueue)
        /\ Len(returned[t]) > 0
        /\ out[t] = returned[t][Len(returned[t])]

\* C4: head and tail stay inside the ring, and the number of events stored
\* and not yet handed out is (head - tail) mod capacity, at most capacity - 1.
C4_IndexRange ==
    /\ eventQueue.head \in 0..(RING_BUFFER_SIZE - 1)
    /\ eventQueue.tail \in 0..(RING_BUFFER_SIZE - 1)
    /\ Len(accepted) - Len(popped)
          = (eventQueue.head - eventQueue.tail) % RING_BUFFER_SIZE
    /\ Len(accepted) - Len(popped) <= RING_BUFFER_SIZE - 1

\* the ring is full and head has wrapped around below tail
C4_Witness ==
    /\ QueueFull(eventQueue)
    /\ eventQueue.head < eventQueue.tail
    /\ Len(accepted) - Len(popped) = RING_BUFFER_SIZE - 1

\* the place of event e among the events accepted by queue_push (0 if none)
PushIndex(e) ==
    IF \E j \in 1..Len(accepted) : accepted[j] = e
    THEN CHOOSE j \in 1..Len(accepted) : accepted[j] = e
    ELSE 0

\* C20: with one producer and several consumers, an event accepted by
\* queue_push is returned by at most one queue_pop call, and every consumer
\* gets its events in the order they were pushed.
C20_NoDoubleDelivery ==
    nprod = 1 =>
        /\ \A t1, t2 \in Consumers :
              \A k1 \in 1..Len(returned[t1]) : \A k2 \in 1..Len(returned[t2]) :
                  returned[t1][k1] = returned[t2][k2] => (t1 = t2 /\ k1 = k2)
        /\ \A t \in Consumers :
              \A k \in 1..Len(returned[t]) :
                  /\ PushIndex(returned[t][k]) > 0
                  /\ k > 1 => PushIndex(returned[t][k - 1]) < PushIndex(returned[t][k])

\* two consumers have popped concurrently and both got events, one of them two
C20_Witness ==
    /\ nprod = 1
    /\ ncons >= 2
    /\ \E t1, t2 \in Consumers :
          /\ t1 # t2
          /\ Len(returned[t1]) >= 2
          /\ Len(returned[t2]) >= 1
          /\ PushIndex(returned[t1][1]) < PushIndex(returned[t2][1])
          /\ PushIndex(returned[t2][1]) < PushIndex(returned[t1][2])

(***************************************************************************)
(* Playback engine: properties                                             *)
(***************************************************************************)
\* A reading of the chunk bytes by the Standard MIDI File format, apart from
\* the decoder above: the variable-length quantity at pos as (val, pos after).
RECURSIVE RefQuantity(_, _, _)
RefQuantity(bytes, pos, acc) ==
    IF pos >= Len(bytes)
    THEN [val |-> acc, pos |-> pos]
    ELSE LET b == bytes[pos + 1]
         IN  IF b >= 128
             THEN RefQuantity(bytes, pos + 1, acc * 128 + (b % 128))
             ELSE [val |-> acc * 128 + b, pos |-> pos + 1]

\* data bytes of a channel message by its status byte
RefDataBytes(st) == IF st >= 192 /\ st < 224 THEN 1 ELSE 2

\* The absolute tick (the running sum of the delta-times) of the event whose
\* first byte after its delta-time is at offset off; pos is at a delta-time,
\* acc the sum so far, st the status in force. -1 when no event starts at off.
RECURSIVE RefTickAt(_, _, _, _, _)
RefTickAt(bytes, pos, acc, st, off) ==
    IF pos >= Len(bytes) \/ pos > off
    THEN -1
    ELSE LET q == RefQuantity(bytes, pos, 0)
             at == q.pos
             sum == acc + q.val
         IN  IF at = off THEN sum
             ELSE IF at >= Len(bytes) THEN -1
             ELSE LET b == bytes[at + 1]
                  IN  IF b = 255
                      THEN LET len == RefQuantity(bytes, at + 2, 0)
                           IN  RefTickAt(bytes, len.pos + len.val, sum, st, off)
                      ELSE IF b = 240 \/ b = 247
                      THEN LET len == RefQuantity(bytes, at + 1, 0)
                           IN  RefTickAt(bytes, len.pos + len.val, sum, st, off)
                      ELSE IF b >= 128
                      THEN RefTickAt(bytes, at + 1 + RefDataBytes(b), sum, b, off)
                      ELSE RefTickAt(bytes, at + RefDataBytes(st), sum, st, off)

\* the absolute tick of the event a history entry stands for
AbsTick(n) == RefTickAt(mem[n.track + 1], 0, 0, 0, n.off)

AllTracksDeactivated ==
    \A k \in 0..(track_count - 1) : tracks[k].data = NULL /\ tracks[k].length = 0

\* the event at the cursor of track k is an End-of-Track meta event
AtEndOfTrack(k) ==
    /\ tracks[k].data # NULL
    /\ RawByte(tracks[k], tracks[k].offset) = 255
    /\ RawByte(tracks[k], tracks[k].offset + 1) = 47

\* C5: the note callbacks are invoked in non-decreasing order of the absolute
\* ticks (the running sums of the delta-times) of the events of the file.
C5_TickOrder ==
    \A a, b \in 1..Len(notes) :
        (a < b /\ AbsTick(notes[a]) >= 0 /\ AbsTick(notes[b]) >= 0)
            => AbsTick(notes[a]) <= AbsTick(notes[b])

\* C6: an event in running status after a Note-On is decoded as the latched
\* status with its own two data bytes and nothing else.
C6_RunningStatusOwnData ==
    \A k \in 1..Len(notes) :
        (notes[k].running /\ notes[k].status - (notes[k].status % 16) = 144) =>
            notes[k].message
                = notes[k].status + notes[k].d1 * 256 + notes[k].d2 * 65536

\* C7: processing End-of-Track deactivates the track, and play_midi on
\* well-formed tracks that each end with End-of-Track leaves its loop with
\* every track deactivated.
C7_EndOfTrackTerminates ==
    /\ [][\A k \in 0..(track_count - 1) :
            (ppc = "for" /\ i = k /\ AtEndOfTrack(k) /\ tracks'[k] # tracks[k])
                => (tracks'[k].data = NULL /\ tracks'[k].length = 0)]_vars
    /\ <>(ppc = "returned" /\ AllTracksDeactivated)

\* C8: a track whose buffer is exhausted is inactive: whenever the loop over
\* the due events tests a track whose cursor is at the end of its buffer, the
\* track has been deactivated.
C8_ExhaustedTrackInactive ==
    \A k \in 0..(track_count - 1) :
        (ppc = "for" /\ i = k /\ tracks[k].offset >= tracks[k].length
           /\ ULessEq(tracks[k].tick, tick))
            => tracks[k].data = NULL

\* C9: a Note-On with velocity 0 reaches the consumer as note_off(channel,
\* note); note_on is not invoked for it.
C9_NoteOnVelocityZero ==
    \A k \in 1..Len(notes) :
        (notes[k].status - (notes[k].status % 16) = 144 /\ notes[k].d2 = 0) =>
            /\ notes[k].cb = "note_off"
            /\ notes[k].args = <<notes[k].status % 16, notes[k].d1>>

\* C10: the consumer's note_on receives channel = low nibble of the status
\* byte, note = first data byte, velocity = second data byte.
C10_NoteOnParameters ==
    \A k \in 1..Len(notes) :
        (notes[k].cb = "note_on" /\ ~notes[k].running) =>
            /\ notes[k].ev.channel = notes[k].status % 16
            /\ notes[k].ev.note = notes[k].d1
            /\ notes[k].ev.velocity = notes[k].d2
\* track k is the one the loop over the due events is about to decode
AboutToDecode(k) ==
    /\ ppc = "for"
    /\ i = k
    /\ k < track_count
    /\ tracks[k].data # NULL
    /\ ULessEq(tracks[k].tick, tick)

\* C13: the cursor of every active track stays inside 0..length.
C13_OffsetInBuffer ==
    \A k \in 0..(track_count - 1) :
        tracks[k].data # NULL =>
            (0 <= tracks[k].offset /\ tracks[k].offset <= tracks[k].length)

\* C14: decoding an event reads no track byte at an index >= length.
C14_NoReadOutside ==
    \A k \in 0..(track_count - 1) :
        AboutToDecode(k) => ~ReadsOutside(tracks[k])

\* C15: when a meta or SysEx event is decoded, the payload bytes copied to the
\* scratch buffer are at most the bytes that remained in the track buffer, and
\* the offset after the event is at most length.
C15_PayloadClamped ==
    \A k \in 0..(track_count - 1) :
        AboutToDecode(k) =>
            \A t1 \in update_command(tracks[k]) :
                (t1.message % 256 = 255 \/ t1.message % 256 = 240) =>
                    \A t2 \in update_message(t1) :
                        LET copied == t2.long_msg_len
                            payload == t2.offset - copied
                        IN  /\ copied <= t2.length - payload
                            /\ t2.offset <= t2.length

\* the event at the cursor of track k is a Set-Tempo meta event FF 51 03 with
\* its three payload bytes inside the buffer
AtSetTempo(k) ==
    /\ RawByte(tracks[k], tracks[k].offset) = 255
    /\ RawByte(tracks[k], tracks[k].offset + 1) = 81
    /\ RawByte(tracks[k], tracks[k].offset + 2) = 3
    /\ tracks[k].offset + 5 < Len(mem[tracks[k].data])

\* the tempo the payload of the Set-Tempo event at the cursor of track k gives
TempoAt(k) ==
    RawByte(tracks[k], tracks[k].offset + 3) * 65536
        + RawByte(tracks[k], tracks[k].offset + 4) * 256
        + RawByte(tracks[k], tracks[k].offset + 5)

C19_MultiplierAtLeastOne ==
    (ppc = "for" /\ i = track_count /\ has_active_tracks) =>
        /\ multiplier.den > 0
        /\ multiplier.num >= multiplier.den
        /\ bpm = 500000 =>
              multiplier = MinOne(500000 * 10, time_div)

(***************************************************************************)
(* load_midi_file: properties                                              *)
(***************************************************************************)
\* the header chunk of the file by the Standard MIDI File format: bytes 0-3 the
\* magic, 4-7 the length, 12-13 the division
BadMagic == SubSeq(file, 1, 4) # <<77, 84, 104, 100>>
BadHeaderLength == SubSeq(file, 5, 8) # <<0, 0, 0, 6>>
SmpteDivision == file[13] >= 128

\* the payloads of the MTrk chunks among the n chunks that start at pos, each
\* chunk being a 4-byte tag, a 4-byte big-endian length and that many bytes
RECURSIVE RefMTrkPayloads(_, _, _)
RefMTrkPayloads(bytes, pos, n) ==
    IF n = 0 \/ pos + 8 > Len(bytes)
    THEN <<>>
    ELSE LET tag == SubSeq(bytes, pos + 1, pos + 4)
             len == bytes[pos + 7] * 256 + bytes[pos + 8]
             rest == RefMTrkPayloads(bytes, pos + 8 + len, n - 1)
         IN  IF tag = <<77, 84, 114, 107>>
             THEN <<SubSeq(bytes, pos + 9, pos + 8 + len)>> \o rest
             ELSE rest

\* C16: on a bad magic, a header length other than 6 or an SMPTE division,
\* load_midi_file returns NULL and the caller's time_div and track_count are as
\* they were before the call (0 and 0).
C16_FailedLoadLeavesOutputs ==
    (lpc = "done" /\ (BadMagic \/ BadHeaderLength \/ SmpteDivision)) =>
        /\ load_ret = "NULL"
        /\ time_div = 0
        /\ track_count = 0

\* C17: a chunk with another tag than MTrk is skipped as a whole and every
\* MTrk chunk among the chunks enumerated is loaded with its own payload:
\* track_count is the number of MTrk chunks.
C17_UnknownChunkSkipped ==
    load_ret = "tracks" =>
        LET expected == RefMTrkPayloads(file, 14, num_tracks)
        IN  /\ track_count = Len(expected)
            /\ mem = expected
            /\ \A k \in 0..(track_count - 1) :
                  tracks[k].data = k + 1 /\ tracks[k].length = Len(expected[k + 1])

(***************************************************************************)
(* decode_variable_length: properties                                      *)
(***************************************************************************)
\* the byte of the call's buffer at index k
EntryByte(k) == mem[entry.data][k + 1]

\* a variable-length quantity of n bytes starts at the cursor and lies inside
\* the buffer: n - 1 bytes with the continuation bit, then one without
QuantityAt(n) ==
    /\ entry.offset + n <= entry.length
    /\ \A k \in 0..(n - 2) : EntryByte(entry.offset + k) >= 128
    /\ EntryByte(entry.offset + n - 1) < 128

\* the integer the first n bytes at the cursor encode, 7 bits a byte, the most
\* significant group first
RECURSIVE GroupsValue(_)
GroupsValue(n) ==
    IF n = 0 THEN 0
    ELSE GroupsValue(n - 1) * 128 + (EntryByte(entry.offset + n - 1) % 128)

\* C11: a variable-length quantity of 1 to 4 bytes inside the buffer is decoded
\* to the integer it encodes, and the offset advances by its number of bytes.
C11_DecodeValue ==
    dpc = "done" =>
        \A n \in 1..4 :
            QuantityAt(n) => /\ dresult = GroupsValue(n)
                             /\ dtrack.offset = entry.offset + n

\* the call decoded FF FF FF 7F, the largest quantity of four bytes
C11_Witness ==
    /\ dpc = "done"
    /\ QuantityAt(4)
    /\ dresult = 268435455
    /\ dtrack.offset = entry.offset + 4

\* every byte from the cursor to the end of the buffer has the continuation bit
TruncatedAt ==
    /\ entry.offset < entry.length
    /\ \A k \in entry.offset..(entry.length - 1) : EntryByte(k) >= 128

\* C12: decode_variable_length reads no byte at an index >= length; called at
\* the buffer end it returns 0 and moves nothing; on a truncated quantity it
\* stops at the end of the buffer with the value accumulated so far; the offset
\* is at most length afterwards.
C12_DecodeInBounds ==
    dpc = "done" =>
        /\ \A k \in 1..Len(reads) : reads[k] >= 0 /\ reads[k] < entry.length
        /\ dtrack.offset <= entry.length
        /\ entry.offset >= entry.length =>
              (dresult = 0 /\ dtrack.offset = entry.offset /\ reads = <<>>)
        /\ TruncatedAt => dtrack.offset = entry.length
        /\ (TruncatedAt /\ entry.length - entry.offset <= 4) =>
              dresult = GroupsValue(entry.length - entry.offset)

\* the call ran into the end of the buffer in the middle of a quantity
C12_Witness ==
    /\ dpc = "done"
    /\ TruncatedAt
    /\ entry.length - entry.offset = 2
    /\ dresult = 16383
    /\ dtrack.offset = entry.length

\* C21: one call of decode_variable_length consumes at most 4 bytes, whatever
\* the buffer holds (a fifth byte is not consumed after four bytes with the
\* continuation bit), and the result is a non-negative value of 32 bits.
C21_AtMostFourBytes ==
    dpc = "done" =>
        /\ dtrack.offset - entry.offset <= 4
        /\ Len(reads) <= 4
        /\ dresult >= 0

(***************************************************************************)
(* Decoding of events and the pump loop: properties                        *)
(***************************************************************************)
\* where the event at the cursor of track k ends by the file format, when it
\* is a meta event (FF, type, length, payload) or a SysEx event (F0, length,
\* payload): the offset of the byte after its payload
RefLongEventEnd(k) ==
    LET bytes == mem[tracks[k].data]
        off == tracks[k].offset
        len == RefQuantity(bytes, IF bytes[off + 1] = 255 THEN off + 2 ELSE off + 1, 0)
    IN  len.pos + len.val

\* a meta or SysEx event starts at the cursor of track k and lies inside the
\* buffer
AtLongEvent(k) ==
    /\ tracks[k].offset < Len(mem[tracks[k].data])
    /\ RawByte(tracks[k], tracks[k].offset) \in {255, 240}
    /\ RefLongEventEnd(k) <= Len(mem[tracks[k].data])

\* C22: decoding a meta or SysEx event leaves the cursor on the first byte of
\* the next delta-time: past status, type byte (meta only), length field and
\* payload, the length field being the quantity right after the type byte
\* (meta) or the status byte (SysEx).
C22_LongEventCursor ==
    \A k \in 0..(track_count - 1) :
        (AboutToDecode(k) /\ AtLongEvent(k)) =>
            \A t1 \in update_command(tracks[k]) :
                \A t2 \in update_message(t1) :
                    t2.offset = RefLongEventEnd(k)

\* the status byte in force for the event of the call: the byte at the cursor
\* when it is a status byte, else the latched one
StatusInForce ==
    IF EntryByte(entry.offset) >= 128 THEN EntryByte(entry.offset)
    ELSE entry.message % 256

\* the bytes the call consumed after the status slot
DataBytesConsumed ==
    dtrack.offset - entry.offset - (IF EntryByte(entry.offset) >= 128 THEN 1 ELSE 0)

\* C23: a channel message consumes 2 data bytes for status 80-BF and E0-EF and
\* 1 for status C0-DF; in running status the offset advances by the data bytes
\* only, and the latched status stays in force.
C23_DataBytesByStatus ==
    dpc = "decoded" =>
        /\ (StatusInForce \in 128..191 \cup 224..239) => DataBytesConsumed = 2
        /\ (StatusInForce \in 192..223) => DataBytesConsumed = 1
        /\ EntryByte(entry.offset) < 128 =>
              /\ dtrack.offset - entry.offset = RefDataBytes(entry.message % 256)
              /\ dtrack.message % 256 = entry.message % 256

\* a Program-Change in running status has been decoded: one byte consumed
C23_Witness ==
    /\ dpc = "decoded"
    /\ EntryByte(entry.offset) < 128
    /\ entry.message % 256 = 193
    /\ dtrack.offset = entry.offset + 1

\* lines 286-299 have been passed, and the drift at line 293 was at least the
\* ideal delay of the step
DriftCoversDelay == paced.step # "none" /\ paced.drift >= paced.ideal

\* C24: after a pass of the pump loop in which the accumulated drift is at
\* least the ideal delay of the step, so that there is nothing to sleep, the
\* drift has been clamped: delta <= max_drift.
C24_DriftClamped ==
    DriftCoversDelay => delta <= max_drift

\* C25: the sleep primitive is called only when the ideal delay exceeds the
\* positive part of the drift; the duration requested is the ideal delay minus
\* the drift (the whole ideal delay when the drift is <= 0), is positive and is
\* at most the ideal delay.
C25_SleepDuration ==
    paced.step = "sleep" =>
        /\ paced.ideal > (IF paced.drift > 0 THEN paced.drift ELSE 0)
        /\ paced.request = paced.ideal - (IF paced.drift > 0 THEN paced.drift ELSE 0)
        /\ paced.request > 0
        /\ paced.request <= paced.ideal

\* the tracks that are still active
StillActive == { k \in 0..(track_count - 1) : tracks[k].data # NULL }

\* the step from the end of the loop over the tracks through lines 270-299
PumpAdvances == ppc = "for" /\ i = track_count /\ has_active_tracks /\ ppc' = "while"

\* C26: delta_tick is the minimum over the still-active tracks of track.tick -
\* global tick; once the global tick has advanced by it, an active track has
\* its tick equal to the global tick and none has its tick below it.
C26_NextTickIsMinimum ==
    [][PumpAdvances =>
          /\ \E k \in StillActive : delta_tick' = tracks[k].tick - tick
          /\ \A k \in StillActive : ULessEq(delta_tick', tracks[k].tick - tick)
          /\ tick' = tick + delta_tick'
          /\ \E k \in StillActive : tracks'[k].tick = tick'
          /\ \A k \in StillActive : ULessEq(tick', tracks'[k].tick)]_vars

\* the global tick has advanced to the tick of one active track while another
\* active track is due later
C26_Witness ==
    /\ ppc = "while"
    /\ paced.step # "none"
    /\ \E k1, k2 \in StillActive :
          tracks[k1].tick = tick /\ ULess(tick, tracks[k2].tick)

\* C27: the global tick strictly increases from one pass of the pump loop to
\* the next: when lines 270-284 are reached every active track has its tick
\* above the global tick, delta_tick is at least 1 and is not the UINT64_MAX
\* it was initialised with, and the global tick grows.
C27_TickStrictlyIncreases ==
    [][PumpAdvances =>
          /\ \A k \in StillActive : ULess(tick, tracks[k].tick)
          /\ ULessEq(1, delta_tick')
          /\ delta_tick' # UINT64_MAX
          /\ ULess(tick, tick')]_vars

\* C28: the events dispatched at one global tick are dispatched before the
\* tick advances, in the order of the track index and, within a track, of the
\* bytes: the calls are in non-decreasing order of the global tick, and of two
\* calls at the same global tick the earlier is of a lower track or of the same
\* track at a lower offset; no active track is still due when the tick advances.
C28_SameTickOrder ==
    /\ \A a, b \in 1..Len(notes) :
          a < b =>
             /\ ULessEq(notes[a].gtick, notes[b].gtick)
             /\ notes[a].gtick = notes[b].gtick =>
                   \/ notes[a].track < notes[b].track
                   \/ /\ notes[a].track = notes[b].track
                      /\ notes[a].off < notes[b].off
    /\ (ppc = "for" /\ i = track_count) =>
          \A k \in StillActive : ULess(tick, tracks[k].tick)

\* two stacked events of track 0 and then an event of track 1 have been
\* dispatched at the same global tick
C28_Witness ==
    /\ Len(notes) >= 3
    /\ notes[1].track = 0 /\ notes[2].track = 0 /\ notes[3].track = 1
    /\ notes[1].gtick = notes[3].gtick
    /\ notes[2].gtick = notes[3].gtick

\* C29: every event is dispatched at its own tick: whenever an event of a
\* track is about to be decoded and dispatched, the track's tick equals the
\* global tick.
C29_DispatchedAtOwnTick ==
    \A k \in 0..(track_count - 1) :
        AboutToDecode(k) => tracks[k].tick = tick

\* C30: the absolute tick of a track never decreases: no decode of a
\* delta-time, whatever the bytes, leaves track.tick (a 32-bit signed integer)
\* smaller than it was.
C30_TrackTickMonotone ==
    dpc = "done" => dtrack.tick >= entry.tick

\* the last event decoded on track k was End-of-Track: the message is FF with
\* the type byte 2F
LastWasEndOfTrack(k) == tracks[k].message = 12287

\* C31: a track deactivated by End-of-Track stays inactive: once End-of-Track
\* has been decoded the track has data = NULL and length = 0, nothing of it
\* changes any more (no byte is read, no event or delta-time decoded), it is
\* not about to be decoded and it is not among the tracks of the delta_tick
\* minimum.
C31_DeactivatedStaysInactive ==
    /\ [][\A k \in 0..(track_count - 1) :
            tracks[k].data = NULL => tracks'[k] = tracks[k]]_vars
    /\ [](\A k \in 0..(track_count - 1) :
            LastWasEndOfTrack(k) =>
                /\ tracks[k].data = NULL /\ tracks[k].length = 0
                /\ ~AboutToDecode(k)
                /\ \A n \in 1..Len(active_tracks) : active_tracks[n] # k)

\* play_midi has gone on to tick 10 on track 1 after End-of-Track of track 0,
\* whose buffer holds a Note-On after End-of-Track: the cursor of track 0
\* stands where End-of-Track left it and the Note-On was not dispatched
C31_Witness ==
    /\ mem = AfterEndExample
    /\ tick = 10
    /\ Len(notes) = 3
    /\ tracks[0].data = NULL
    /\ tracks[0].offset = 8
    /\ \A n \in 1..Len(notes) : notes[n].track = 0 => notes[n].off = 1

(***************************************************************************)
(* Threads: properties                                                     *)
(***************************************************************************)
\* the threads inside queue_push or queue_pop between lock and unlock
InCriticalSection == { t \in Threads : qpc[t] # "idle" }

\* C32: the queue lock is taken and released inside each call of queue_push /
\* queue_pop: a thread outside a call (where the scheduler decodes and sleeps)
\* does not hold it, at most one thread is between lock and unlock and it is
\* the holder, and a held lock has a holder that can go on to release it.
C32_LockInsideCall ==
    /\ \A t \in Threads : qpc[t] = "idle" => eventQueue.mutex # t
    /\ Cardinality(InCriticalSection) <= 1
    /\ \A t \in InCriticalSection : eventQueue.mutex = t
    /\ eventQueue.mutex # 0 =>
          qpc[eventQueue.mutex] \in {"push_body", "push_unlock", "pop_body", "pop_unlock"}
    /\ eventQueue.mutex = 0 => InCriticalSection = {}

\* a consumer is inside queue_pop while the producer, which has pushed before
\* and has calls left, and the other consumer are outside
C32_Witness ==
    /\ nprod = 1 /\ ncons = 2
    /\ \E c \in ActiveConsumers : qpc[c] = "pop_body" /\ eventQueue.mutex = c
    /\ pushCalls >= 1 /\ pushCalls < MaxPushes
    /\ \A p \in ActiveProducers : qpc[p] = "idle"

\* the thread's next step reads or writes activeNotes with the queue lock not
\* held by it
AtActiveNotesAccess(t) ==
    /\ rpc[t] \in {"write", "access", "active"}
    /\ eventQueue.mutex # t

\* the thread's next step writes textureNeedsUpdate with the queue lock not
\* held by it
AtFlagAccess(t) ==
    /\ rpc[t] = "flag"
    /\ eventQueue.mutex # t

\* C39: there is no reachable state in which the scheduler thread, inside
\* note_on / note_off, and the render thread are both about to access
\* activeNotes, or both about to access textureNeedsUpdate, without the queue
\* lock.
C39_SharedStateUnderLock ==
    \A p \in ActiveProducers, c \in ActiveConsumers :
        /\ ~(AtActiveNotesAccess(p) /\ AtActiveNotesAccess(c))
        /\ ~(AtFlagAccess(p) /\ AtFlagAccess(c))

RECURSIVE SumOf(_)
SumOf(seq) == IF seq = <<>> THEN 0 ELSE Head(seq) + SumOf(Tail(seq))

\* the events with a Note-On status that play_midi has processed
NoteOnsProcessed ==
    Cardinality({ n \in 1..Len(notes) :
                    BitAnd(notes[n].message % 256, 240) = 144 })

\* C33: at no point of play_midi does the scheduler thread wait for the thread
\* of log_notes_per_second while that thread is in its one-second sleep.
C33_SchedulerNeverWaits == ~(ppc = "join" /\ spc = "sleep")

\* C34: when play_midi has returned, the values reported by the sampler and
\* the final value of the counter add up to the number of Note-On status
\* events processed.
C34_NoCountLost ==
    ppc = "returned" => SumOf(reported) + note_on_count = NoteOnsProcessed

\* C35: once every track is deactivated play_midi eventually returns, with
\* is_playing cleared and the thread of log_notes_per_second ended; after
\* is_playing has been cleared that thread starts no further sleep, so it ends
\* after at most the interval it was in. Both threads are scheduled fairly.
C35_EventuallyReturns ==
    /\ (ppc \notin {"off", "entry"} /\ AllTracksDeactivated)
           ~> (ppc = "returned" /\ ~is_playing /\ spc = "done")
    /\ [][(ppc \in {"join", "returned"} /\ spc # "sleep") => (spc' # "sleep")]_vars

\* play_midi has returned from a run in which the sampler had reported
C35_Witness ==
    /\ mem = MergeExample
    /\ AllTracksDeactivated
    /\ ppc = "returned" /\ spc = "done" /\ ~is_playing
    /\ Len(reported) >= 1

\* the event at the cursor of track k is a Set-Tempo meta event FF 51 whose
\* declared payload length is less than 3, with the payload inside the buffer
ShortSetTempoAt(k) ==
    /\ RawByte(tracks[k], tracks[k].offset) = 255
    /\ RawByte(tracks[k], tracks[k].offset + 1) = 81
    /\ RawByte(tracks[k], tracks[k].offset + 2) \in 0..2
    /\ tracks[k].offset + 2 + RawByte(tracks[k], tracks[k].offset + 2)
           < Len(mem[tracks[k].data])

\* the tempos the event at the cursor of t can set
TempoOutcomes(t) ==
    UNION { UNION { { m.bpm : m \in process_meta_event(t2, multiplier, bpm, time_div) }
                    : t2 \in update_message(t1) }
            : t1 \in update_command(t) }

\* contents an earlier meta or SysEx event of the track can leave in the first
\* bytes of the scratch buffer
EarlierPayloads == [1..LongMsgView -> {1, 7}]

\* C36: the tempo set by a Set-Tempo event with a declared payload length
\* below 3 is the same whatever an earlier meta or SysEx event of the track
\* left in the scratch buffer.
C36_TempoFromOwnPayload ==
    \A k \in 0..(track_count - 1) :
        (AboutToDecode(k) /\ ShortSetTempoAt(k)) =>
            \A earlier \in EarlierPayloads :
                TempoOutcomes([tracks[k] EXCEPT !.long_msg = earlier])
                    = TempoOutcomes(tracks[k])

\* C37: in every note-on and note-off notification the consumer receives, the
\* channel is in 0..15 and the note in 0..127, the index ranges of
\* activeNotes[16][128].
C37_ArgumentsInRange ==
    \A n \in 1..Len(notes) :
        /\ notes[n].ev.channel \in 0..15
        /\ notes[n].ev.note \in 0..127

\* the callbacks and arguments of the history, in order
Notifications == [n \in 1..Len(notes) |-> [cb |-> notes[n].cb, args |-> notes[n].args]]

\* the notifications of a run of the pump loop that never reads the clock,
\* never sleeps and has no sampler beside it: from the tracks trs at the
\* global tick t, with track k the next to be looked at. It ends where all
\* tracks are deactivated or an event would be read outside its buffer.
RECURSIVE RefRun(_, _, _, _)
RefRun(trs, t, k, acc) ==
    IF k < track_count
    THEN IF trs[k].data # NULL /\ ULessEq(trs[k].tick, t)
         THEN IF ReadsOutside(trs[k])
              THEN acc
              ELSE
              LET t1 == CHOOSE x \in update_command(trs[k]) : TRUE
                  t2 == CHOOSE x \in update_message(t1) : TRUE
                  t3 == IF t2.message % 256 = 255
                        THEN (CHOOSE x \in process_meta_event(
                                               t2, [num |-> 0, den |-> 1], 0, 1) :
                                 TRUE).track
                        ELSE t2
                  t4 == IF t3.data # NULL
                        THEN CHOOSE x \in update_tick(t3) : TRUE
                        ELSE t3
                  called == Dispatch(t2.message)
              IN  RefRun([trs EXCEPT ![k] = t4], t, k,
                         acc \o [n \in 1..Len(called) |->
                                    [cb |-> called[n].cb, args |-> called[n].args]])
         ELSE RefRun(trs, t, k + 1, acc)
    ELSE LET active == { j \in 0..(track_count - 1) : trs[j].data # NULL }
         IN  IF active = {}
             THEN acc
             ELSE LET next == CHOOSE j \in active :
                                  \A j2 \in active :
                                      ULessEq(trs[j].tick - t, trs[j2].tick - t)
                  IN  RefRun(trs, t + (trs[next].tick - t), 0, acc)

\* the notification sequence the track bytes alone give
RefNotifications ==
    RefRun([k \in 0..(track_count - 1) |-> LoadedTrack(k + 1)], 0, 0, <<>>)

\* C38: whatever the clock reads, however long the sleeps take and however the
\* sampler's steps fall between those of play_midi, the notifications
\* delivered so far are the first ones of the sequence that the track bytes
\* alone determine, and all of it when play_midi has returned.
C38_ClockIndependent ==
    /\ [][notes' # notes =>
             LET ref == RefNotifications
             IN  /\ Len(notes') <= Len(ref)
                 /\ \A n \in 1..Len(notes') :
                        /\ notes'[n].cb = ref[n].cb
                        /\ notes'[n].args = ref[n].args]_vars
    /\ [](ppc = "returned" => Notifications = RefNotifications)

\* play_midi has returned from a run of the two-track file in which the clock
\* read late and the sampler reported twice
C38_Witness ==
    /\ mem = MergeExample
    /\ ppc = "returned"
    /\ Len(notes) = Len(RefNotifications) /\ Len(notes) >= 3
    /\ delta > 0
    /\ Len(reported) = 2
====
